---- MODULE Spec2Model ----
(***************************************************************************)
(* The goal engine: the recursive evaluator seek() of lib/engine.ts over   *)
(* a graph of Testable / Actionable / Operation nodes.                     *)
(*                                                                         *)
(* The world is, for every context, one cell per leaf node: the part of    *)
(* the system the callbacks of the node look at and act on when they are   *)
(* given that context.  The value of the cell decides what the probe does: *)
(*   "ok"       state() resolves and test() returns true on the snapshot   *)
(*   "bad"      state() resolves and test() returns false on the snapshot  *)
(*   "missing"  state() rejects with StateNotFound                         *)
(*   "broken"   state() rejects with an error other than StateNotFound     *)
(* Every call of seek() is a frame, named by its path in the call tree.    *)
(* A frame advances from one await of the code to the next; frames of the  *)
(* children of a parallel operation interleave.  A frame keeps what it has *)
(* done: p1 and p2 are the outcomes of the state read of the first probe   *)
(* and of the re-probe, rr the outcome of the re-read made before the      *)
(* action, arg the snapshot handed to the action, ret the value the        *)
(* promise of the action resolved with ("rejected" when it rejected and    *)
(* "none" as long as it has not settled), calls the number of calls of the *)
(* action, reads the number of calls of the state reader, res and err the  *)
(* settlement, log the messages the call has written to the console.       *)
(***************************************************************************)
EXTENDS Integers, Sequences, FiniteSets, TLC

VARIABLES graph, world, frames

vars == <<graph, world, frames>>

\* ---------------------------------------------------------------- bounds
NumNodes == 3
MaxChildren == 2
MaxSeeks == 2
MaxCalls == 3

\* ------------------------------------------------------------ data model
Nodes == 1..NumNodes

\* A combinator builds new nodes and leaves the ones it is applied to as
\* they are: the node a combinator makes of node n is Copy(n).
Copy(n) == n + NumNodes

\* the node whose state reader, test and action a node has: those of a copy
\* are the callbacks of the node it was made of
Origin(n) == IF n \in Nodes THEN n ELSE n - NumNodes

Values == {"ok", "bad", "missing", "broken"}

\* The list of allowed operations
Operations == {"and", "or", "any", "all"}

\* What a user-supplied action callback does when it is called:
\*   "noop"   changes nothing, resolves with true
\*   "fix"    makes the node's own test pass, resolves with undefined
\*   "spoil"  makes the node's own test pass and the test of every other
\*            leaf fail, resolves with false
\*   "wreck"  makes the node's own state unreadable (an error other than
\*            StateNotFound), resolves with undefined
\*   "throw"  rejects, changes nothing
\*   "mend"   makes the node's own test pass, then rejects
Behaviours == {"noop", "fix", "spoil", "wreck", "throw", "mend"}

\* the behaviours whose promise rejects
Throws(a) == a \in {"throw", "mend"}

\* The values a context takes
Contexts == {0, 1}

\* The context transformation of callbacks that were not mapped
Identity == [c \in Contexts |-> c]

\* goal.description: what a node that is not Described has, and what a
\* node has that a description was attached to with Described.of
NoDescription == <<"none", 0>>

\* A node.  via is the context transformation its state and test apply to
\* the context they are given (State.map, Test.map), avia the one its action
\* applies (Action.map); both are the identity until the node is mapped.
\* desc is the description function of a Described node and dvia the
\* context transformation it applies (Described.map).
\* by is the method of a goal that returned the node (map, action, requires,
\* description), "-" for a node the program built itself; the program keeps
\* no such record, it is kept here for the statements about what a method
\* returns.
\* parts and test are the state and the test of a node built from other
\* nodes: its state reads the states of parts (State.of), its test is
\* Test.all or Test.any over their tests; a node with a reader of its own
\* has no parts, and its test is one it was given ("-") or the default one
\* ("truthy").
Unused ==
    [kind |-> "unused", op |-> "-", nodes |-> <<>>, action |-> "-", requires |-> 0,
     via |-> Identity, avia |-> Identity, parts |-> <<>>, test |-> "-",
     desc |-> NoDescription, dvia |-> Identity, by |-> "-"]

Testable ==
    [kind |-> "testable", op |-> "-", nodes |-> <<>>, action |-> "-", requires |-> 0,
     via |-> Identity, avia |-> Identity, parts |-> <<>>, test |-> "-",
     desc |-> NoDescription, dvia |-> Identity, by |-> "-"]

Actionable(a, r) ==
    [kind |-> "actionable", op |-> "-", nodes |-> <<>>, action |-> a, requires |-> r,
     via |-> Identity, avia |-> Identity, parts |-> <<>>, test |-> "-",
     desc |-> NoDescription, dvia |-> Identity, by |-> "-"]

\* Operation.of: the state is State.of over the states of the nodes, the
\* test Test.all for 'all' and 'and', Test.any for 'or' and 'any'
Operation(o, ns) ==
    [kind |-> "operation", op |-> o, nodes |-> ns, action |-> "-", requires |-> 0,
     via |-> Identity, avia |-> Identity, parts |-> ns,
     test |-> IF o \in {"all", "and"} THEN "all" ELSE "any",
     desc |-> NoDescription, dvia |-> Identity, by |-> "-"]

\* Described.of(node, d)
Described(nd, d) == [nd EXCEPT !.desc = d, !.dvia = Identity]

IsOperation(nd) == nd.kind = "operation"

IsActionable(nd) == nd.kind = "actionable"

IsTestable(nd) == nd.kind \in {"testable", "actionable", "operation"}

\* Nodes are immutable values without back-edges: a node only refers to
\* nodes built before it, here the nodes of a greater index.
Later(i) == (i + 1)..NumNodes

NodeLists(i) == UNION {[1..k -> Later(i)] : k \in 1..MaxChildren}

Candidates(i) ==
    (IF i = 1 THEN {} ELSE {Unused})
    \cup {Testable}
    \cup {Actionable(a, r) : a \in Behaviours, r \in {0} \cup Later(i)}
    \cup {Operation(o, ns) : o \in Operations, ns \in NodeLists(i)}

Refs(nd) ==
    {nd.nodes[j] : j \in DOMAIN nd.nodes} \cup (IF nd.requires = 0 THEN {} ELSE {nd.requires})

RECURSIVE Reach(_, _, _)
Reach(g, S, k) ==
    IF k = 0 THEN S
    ELSE Reach(g, S \cup UNION {Refs(g[n]) : n \in S}, k - 1)

Reachable(g) == Reach(g, {1}, NumNodes)

Shapes ==
    {g \in [Nodes -> UNION {Candidates(i) : i \in Nodes}] :
        /\ \A i \in Nodes : g[i] \in Candidates(i)
        /\ \A i \in Nodes : (g[i].kind # "unused") <=> (i \in Reachable(g))
        /\ \A i \in Nodes \ {1} : g[i].kind # "unused" => g[i - 1].kind # "unused"}

\* the goals that are built: every node is given a description that names it
Graphs ==
    {[i \in Nodes |-> IF g[i].kind = "unused" THEN g[i]
                      ELSE Described(g[i], <<"goal", i>>)] : g \in Shapes}

Leaves(g) == {n \in Nodes : g[n].kind \in {"testable", "actionable"}}

\* what the callbacks of the nodes of g can find under one context
Worlds(g) ==
    {w \in [Nodes -> Values] : \A n \in Nodes \ Leaves(g) : w[n] = "ok"}

\* the context of the top-level calls of a goal that is sought as it was
\* built
Given == 0

\* a part of the system no callback is pointed at
Blank == [n \in Nodes |-> "ok"]

\* ----------------------------------------------------------------- frames
Root(k) == << <<k, 1>> >>

\* the path of the seek() of child i (attempt a) started by the frame at p
Child(p, i, a) == Append(p, <<i, a>>)

\* the path of seek(goal.requires, ctx) started by the frame at p
Pre(p) == Append(p, <<0, 1>>)

\* goal.description(ctx) of node n
description(n) == graph[n].desc

\* The error a rejected promise carries.  origin and from tell which
\* callback of which node made the error (they are the identity of the error
\* object); description is what the error itself says about the goal that
\* failed.  A callback rejects with an error of its own, that knows nothing
\* of the goal, and the engine passes errors on as they are.
NoError == [origin |-> 0, from |-> "none", description |-> NoDescription]

StateError(n) == [origin |-> n, from |-> "state", description |-> NoDescription]

ActionError(n) == [origin |-> n, from |-> "action", description |-> NoDescription]

Frame(n, c, pc, snap) ==
    [node |-> n, ctx |-> c, pc |-> pc, snap |-> snap, p1 |-> "none", p2 |-> "none",
     rr |-> "none", arg |-> "none", ret |-> "none", calls |-> 0,
     reads |-> IF snap = "none" THEN 0 ELSE 1,
     res |-> "none", err |-> NoError, i |-> 0, att |-> 1, prev |-> "false",
     log |-> << >>]

\* console.log of the message m by the call of frame f
Log(f, m) == [f EXCEPT !.log = @ \o m]

Settled(p) == p \in DOMAIN frames /\ frames[p].pc = "done"

Return(f, r) == [f EXCEPT !.pc = "done", !.res = r]

Reject(f, e) == [f EXCEPT !.pc = "done", !.res = "throw", !.err = e]

\* the settlement of a child carried over to the frame that awaited it
Propagate(f, c) == [f EXCEPT !.pc = "done", !.res = c.res, !.err = c.err]

\* ------------------------------------------------------------- callbacks
\* The snapshots a state reader resolves with when its goal has the default
\* test: values of the language, by name ("empty" is the empty string).
\* "ok" and "bad", the snapshots a test of the user's passes and fails on,
\* are strings that are not empty.
Snapshots ==
    {"ok", "bad", "true", "false", "0", "1", "empty", "null", "undefined", "NaN", "object"}

\* !!s
Truthy(s) == s \notin {"false", "0", "empty", "null", "undefined", "NaN"}

\* node.test(c, s) of node n on a snapshot the reader resolved with: the
\* default test of fromNode, or the test the node was given
test(n, s) == IF graph[n].test = "truthy" THEN Truthy(s) ELSE s = "ok"

\* The failures of the state reader of node n given context c, in world w.
\* The state of a node built from other nodes is the Promise.all of their
\* states: it rejects with the first rejection among them, whichever comes
\* first.
RECURSIVE StateErrors(_, _, _)
StateErrors(w, c, n) ==
    LET nd == graph[n] IN
    IF nd.parts # <<>>
    THEN UNION {StateErrors(w, nd.via[c], nd.parts[j]) : j \in DOMAIN nd.parts}
    ELSE LET s == w[nd.via[c]][Origin(n)] IN
         IF s \in {"missing", "broken"} THEN {s} ELSE {}

\* node.test(c, s) on the snapshot read in world w.  The test of a node
\* built from other nodes applies the test of each of them to its slot of
\* the snapshot: Test.all for 'and' and 'all', Test.any for 'or' and 'any'.
RECURSIVE NodeTest(_, _, _)
NodeTest(w, c, n) ==
    LET nd == graph[n] IN
    IF nd.parts # <<>>
    THEN IF nd.test = "all"
         THEN {j \in DOMAIN nd.parts : ~NodeTest(w, nd.via[c], nd.parts[j])} = {}
         ELSE {j \in DOMAIN nd.parts : NodeTest(w, nd.via[c], nd.parts[j])} # {}
    ELSE test(n, w[nd.via[c]][Origin(n)])

\* goal.state(c) of node n: the snapshot, or the failure, the reader yields.
\* The snapshot of a node built from other nodes is the tuple of their
\* snapshots, kept here as what its test makes of it; when its parts fail in
\* both ways the read fails in either, whichever part fails first.
state(c, n) ==
    LET nd == graph[n]
        errs == StateErrors(world, c, n)
    IN
    IF nd.parts = <<>> THEN world[nd.via[c]][Origin(n)]
    ELSE IF errs = {} THEN (IF NodeTest(world, c, n) THEN "ok" ELSE "bad")
    ELSE IF errs = {"missing"} THEN "missing"
    ELSE IF errs = {"broken"} THEN "broken"
    ELSE "either"

\* the failures a state read that has failed can have settled with
Settle(s) == IF s = "either" THEN {"missing", "broken"} ELSE {s}

\* the readers the state of node n ends in
RECURSIVE Cells(_)
Cells(n) ==
    IF graph[n].parts = <<>> THEN {Origin(n)}
    ELSE UNION {Cells(graph[n].parts[j]) : j \in DOMAIN graph[n].parts}

\* the world after the action a of node n has run on context c
Act(a, c, n) ==
    CASE a \in {"fix", "mend"} ->
             [world EXCEPT ![c] =
                 [m \in Nodes |-> IF m \in Cells(n) THEN "ok" ELSE world[c][m]]]
      [] a = "spoil" -> [world EXCEPT ![c] =
                            [m \in Nodes |->
                                IF m \in Cells(n) THEN "ok"
                                ELSE IF m \in Leaves(graph) THEN "bad"
                                ELSE world[c][m]]]
      [] a = "wreck" ->
             [world EXCEPT ![c] =
                 [m \in Nodes |-> IF m \in Cells(n) THEN "broken" ELSE world[c][m]]]
      [] OTHER -> world

\* the world after goal.action(c, s) of node n has run
Effect(c, n) == Act(graph[n].action, graph[n].avia[c], n)

\* the value the promise of goal.action(c, s) resolves with
ActionValue(a) ==
    CASE a = "noop" -> "true"
      [] a = "spoil" -> "false"
      [] OTHER -> "undefined"

\* a probe that rethrows StateNotFound like any other error
hasGoalBeenMet_Rethrow(n, s) ==
    IF s \in {"missing", "broken"} THEN "throw"
    ELSE IF test(n, s) THEN "true" ELSE "false"

\* a probe that takes any failure of the state reader for a failed test
hasGoalBeenMet_Swallows(n, s) ==
    IF s \in {"missing", "broken"} THEN "false"
    ELSE IF test(n, s) THEN "true" ELSE "false"

\* ------------------------------------------------------------------ seek
\* hasGoalBeenMet on a settled state read: true, false (also on
\* StateNotFound) or "throw"
hasGoalBeenMet(n, s) ==
    IF s = "missing" THEN "false"
    ELSE IF s = "broken" THEN "throw"
    ELSE IF test(n, s) THEN "true" ELSE "false"

\* goal.state(ctx).catch(() => undefined)
Snapshot(s) == IF s \in {"missing", "broken", "either"} THEN "undefined" ELSE s

\* a seek that probes every node with its own state and test, operations
\* with their aggregated ones
Spawn_ProbesOperation(p, n, c) ==
    p :> Log(Frame(n, c, "test", state(c, n)), <<"checking...">>)

\* The part of seek(node, ctx) that runs synchronously inside the call: a
\* leaf calls its state reader, a parallel operation calls seek on every
\* child, a sequential operation only builds its promise chain.
RECURSIVE Spawn(_, _, _)
RECURSIVE SpawnAll(_, _, _, _)
Spawn(p, n, c) ==
    LET nd == graph[n] IN
    IF IsOperation(nd) THEN
        IF nd.op \in {"and", "or"}
        THEN p :> Frame(n, c, "chain", "none")
        ELSE (p :> Frame(n, c, "join", "none")) @@ SpawnAll(p, nd.nodes, 1, c)
    ELSE p :> Log(Frame(n, c, "test", state(c, n)), <<"checking...">>)
SpawnAll(p, ns, j, c) ==
    IF j > Len(ns) THEN << >>
    ELSE Spawn(Child(p, j, 1), ns[j], c) @@ SpawnAll(p, ns, j + 1, c)

Put(p, f) == [frames EXCEPT ![p] = f]

\* a top-level call seek(goal, c); a further call is made right after the
\* previous one has returned true, and none after a call of goal.test has
\* settled
Seek(k, c, n) ==
    /\ Root(k) \notin DOMAIN frames
    /\ Root(0) \in DOMAIN frames => ~Settled(Root(0))
    /\ k = 1 \/ (Settled(Root(k - 1)) /\ frames[Root(k - 1)].res = "true")
    /\ frames' = Spawn(Root(k), n, c) @@ frames
    /\ UNCHANGED <<graph, world>>

\* a first probe that seeks the pre-condition of an Actionable before it
\* looks at the outcome of the test
FirstProbe_Eager(p) ==
    \E s \in Settle(frames[p].snap) :
    LET f == frames[p]
        nd == graph[f.node]
        met == hasGoalBeenMet(f.node, s)
        g == [f EXCEPT !.p1 = s]
    IN
    /\ f.pc = "test"
    /\ frames' =
         IF met = "throw" THEN Put(p, Reject(g, StateError(f.node)))
         ELSE IF IsActionable(nd) /\ nd.requires # 0
              THEN Spawn(Pre(p), nd.requires, f.ctx) @@
                   Put(p, [Log(g, <<"not ready", "seeking preconditions...">>)
                             EXCEPT !.pc = "requires"])
         ELSE IF met = "true" THEN Put(p, Return(Log(g, <<"ready!">>), "true"))
         ELSE IF ~IsActionable(nd) THEN Put(p, Return(Log(g, <<"failed!">>), "false"))
         ELSE Put(p, [Log(g, <<"not ready">>) EXCEPT
                        !.pc = "action", !.snap = state(f.ctx, f.node),
                        !.reads = @ + 1])
    /\ UNCHANGED <<graph, world>>

\* engine.ts 77-93: the first probe has settled
FirstProbe(p) ==
    \E s \in Settle(frames[p].snap) :
    LET f == frames[p]
        nd == graph[f.node]
        met == hasGoalBeenMet(f.node, s)
        g == [f EXCEPT !.p1 = s]
    IN
    /\ f.pc = "test"
    /\ frames' =
         IF met = "throw" THEN Put(p, Reject(g, StateError(f.node)))
         ELSE IF met = "true" THEN Put(p, Return(Log(g, <<"ready!">>), "true"))
         ELSE IF ~IsActionable(nd) THEN Put(p, Return(Log(g, <<"failed!">>), "false"))
         ELSE IF nd.requires # 0
              THEN Spawn(Pre(p), nd.requires, f.ctx) @@
                   Put(p, [Log(g, <<"not ready", "seeking preconditions...">>)
                             EXCEPT !.pc = "requires"])
              ELSE Put(p, [Log(g, <<"not ready">>) EXCEPT
                        !.pc = "action", !.snap = state(f.ctx, f.node),
                        !.reads = @ + 1])
    /\ UNCHANGED <<graph, world>>

\* a pre-condition whose result is awaited but not looked at
Requires_Ignored(p) ==
    LET f == frames[p]
        c == frames[Pre(p)]
    IN
    /\ f.pc = "requires"
    /\ Settled(Pre(p))
    /\ frames' =
         IF c.res # "throw"
         THEN Put(p, [Log(f, <<"preconditions met!">>) EXCEPT
                        !.pc = "action", !.snap = state(f.ctx, f.node),
                        !.reads = @ + 1])
         ELSE Put(p, Propagate(f, c))
    /\ UNCHANGED <<graph, world>>

\* a seek that catches the error of the seek of its pre-condition and
\* returns false
Requires_Catches(p) ==
    LET f == frames[p]
        c == frames[Pre(p)]
    IN
    /\ f.pc = "requires"
    /\ Settled(Pre(p))
    /\ frames' =
         IF c.res = "true"
         THEN Put(p, [Log(f, <<"preconditions met!">>) EXCEPT
                        !.pc = "action", !.snap = state(f.ctx, f.node),
                        !.reads = @ + 1])
         ELSE Put(p, Return(f, "false"))
    /\ UNCHANGED <<graph, world>>

\* engine.ts 89-100: seek(goal.requires, ctx) has settled
Requires(p) ==
    LET f == frames[p]
        c == frames[Pre(p)]
    IN
    /\ f.pc = "requires"
    /\ Settled(Pre(p))
    /\ frames' =
         IF c.res = "true"
         THEN Put(p, [Log(f, <<"preconditions met!">>) EXCEPT
                        !.pc = "action", !.snap = state(f.ctx, f.node),
                        !.reads = @ + 1])
         ELSE Put(p, Propagate(f, c))
    /\ UNCHANGED <<graph, world>>

\* a seek that hands the action the snapshot of the first probe
RunAction_FirstSnapshot(p) ==
    LET f == frames[p]
        a == graph[f.node].action
        g == [Log(f, <<"running the action...">>) EXCEPT
                 !.rr = f.snap, !.arg = Snapshot(f.p1), !.calls = @ + 1]
    IN
    /\ f.pc = "action"
    /\ frames' = Put(p, [g EXCEPT !.pc = "acted"])
    /\ world' = Effect(f.ctx, f.node)
    /\ UNCHANGED graph

\* engine.ts 100-102: the re-read has settled, the action is called and its
\* promise awaited.  The action does its work when it is called; whether its
\* promise resolves or rejects is known to the seek when the promise settles.
RunAction(p) ==
    LET f == frames[p]
        a == graph[f.node].action
        g == [Log(f, <<"running the action...">>) EXCEPT
                 !.rr = f.snap, !.arg = Snapshot(f.snap), !.calls = @ + 1]
    IN
    /\ f.pc = "action"
    /\ frames' = Put(p, [g EXCEPT !.pc = "acted"])
    /\ world' = Effect(f.ctx, f.node)
    /\ UNCHANGED graph

\* a seek that catches the error of the action and returns false
Reprobe_Catches(p) ==
    LET f == frames[p]
        a == graph[f.node].action
    IN
    /\ f.pc = "acted"
    /\ frames' =
         IF Throws(a)
         THEN Put(p, Return(Log([f EXCEPT !.ret = "rejected"], <<"failed!">>), "false"))
         ELSE Put(p, [f EXCEPT !.pc = "retest", !.ret = ActionValue(a),
                               !.snap = state(f.ctx, f.node), !.reads = @ + 1])
    /\ UNCHANGED <<graph, world>>

\* a re-probe that applies the test to the snapshot read before the action
\* instead of reading the state again
Reprobe_NoRead(p) ==
    LET f == frames[p]
        a == graph[f.node].action
    IN
    /\ f.pc = "acted"
    /\ frames' =
         IF Throws(a)
         THEN Put(p, Reject([f EXCEPT !.ret = "rejected"], ActionError(f.node)))
         ELSE Put(p, [f EXCEPT !.pc = "retest", !.ret = ActionValue(a)])
    /\ UNCHANGED <<graph, world>>

\* engine.ts 102-107: the promise of the action has settled: a rejection
\* rejects the seek, otherwise the state is read again
Reprobe(p) ==
    LET f == frames[p]
        a == graph[f.node].action
    IN
    /\ f.pc = "acted"
    /\ frames' =
         IF Throws(a)
         THEN Put(p, Reject([f EXCEPT !.ret = "rejected"], ActionError(f.node)))
         ELSE Put(p, [f EXCEPT !.pc = "retest", !.ret = ActionValue(a),
                               !.snap = state(f.ctx, f.node), !.reads = @ + 1])
    /\ UNCHANGED <<graph, world>>

\* a seek that returns true when the action resolved with true
SecondProbe_ActionValue(p) ==
    \E s \in Settle(frames[p].snap) :
    LET f == frames[p]
        met == hasGoalBeenMet(f.node, s)
        g == [f EXCEPT !.p2 = s]
    IN
    /\ f.pc = "retest"
    /\ frames' = IF met = "throw" THEN Put(p, Reject(g, StateError(f.node)))
                 ELSE IF f.ret = "true" THEN Put(p, Return(Log(g, <<"ready!">>), "true"))
                 ELSE Put(p, Return(Log(g, <<IF met = "true" THEN "ready!"
                                                 ELSE "failed!">>), met))
    /\ UNCHANGED <<graph, world>>

\* a seek that throws when the test still fails after the action
SecondProbe_Throws(p) ==
    \E s \in Settle(frames[p].snap) :
    LET f == frames[p]
        met == hasGoalBeenMet(f.node, s)
        g == [f EXCEPT !.p2 = s]
    IN
    /\ f.pc = "retest"
    /\ frames' = IF met = "true" THEN Put(p, Return(Log(g, <<"ready!">>), "true"))
                 ELSE Put(p, Reject(g, StateError(f.node)))
    /\ UNCHANGED <<graph, world>>

\* engine.ts 107-114: the re-probe has settled
SecondProbe(p) ==
    \E s \in Settle(frames[p].snap) :
    LET f == frames[p]
        met == hasGoalBeenMet(f.node, s)
        g == [f EXCEPT !.p2 = s]
    IN
    /\ f.pc = "retest"
    /\ frames' = IF met = "throw" THEN Put(p, Reject(g, StateError(f.node)))
                 ELSE Put(p, Return(Log(g, <<IF met = "true" THEN "ready!"
                                                 ELSE "failed!">>), met))
    /\ UNCHANGED <<graph, world>>

\* an 'and' that starts the seek of the next child without waiting for the
\* seek of the child before it
SeekAnd_Parallel(p) ==
    LET f == frames[p]
        ns == graph[f.node].nodes
        c == frames[Child(p, f.i, 1)]
    IN
    /\ f.pc = "chain"
    /\ graph[f.node].op = "and"
    /\ IF f.i < Len(ns)
       THEN frames' = Spawn(Child(p, f.i + 1, 1), ns[f.i + 1], f.ctx)
                        @@ Put(p, [f EXCEPT !.i = f.i + 1])
       ELSE /\ \A j \in DOMAIN ns : Settled(Child(p, j, 1))
            /\ frames' = Put(p, Propagate(f, c))
    /\ UNCHANGED <<graph, world>>

\* an 'and' whose chain goes on after a child has returned false
SeekAnd_NoShortCircuit(p) ==
    LET f == frames[p]
        ns == graph[f.node].nodes
        c == frames[Child(p, f.i, 1)]
    IN
    /\ f.pc = "chain"
    /\ graph[f.node].op = "and"
    /\ IF f.i = 0
       THEN frames' = Spawn(Child(p, 1, 1), ns[1], f.ctx) @@ Put(p, [f EXCEPT !.i = 1])
       ELSE /\ Settled(Child(p, f.i, 1))
            /\ frames' =
                 IF c.res # "throw" /\ f.i < Len(ns)
                 THEN Spawn(Child(p, f.i + 1, 1), ns[f.i + 1], f.ctx)
                        @@ Put(p, [f EXCEPT !.i = f.i + 1])
                 ELSE Put(p, Propagate(f, c))
    /\ UNCHANGED <<graph, world>>

\* an 'and' that takes a child that throws for a child that returned false
SeekAnd_Swallows(p) ==
    LET f == frames[p]
        ns == graph[f.node].nodes
        c == frames[Child(p, f.i, 1)]
    IN
    /\ f.pc = "chain"
    /\ graph[f.node].op = "and"
    /\ IF f.i = 0
       THEN frames' = Spawn(Child(p, 1, 1), ns[1], f.ctx) @@ Put(p, [f EXCEPT !.i = 1])
       ELSE /\ Settled(Child(p, f.i, 1))
            /\ frames' =
                 IF c.res = "true" /\ f.i < Len(ns)
                 THEN Spawn(Child(p, f.i + 1, 1), ns[f.i + 1], f.ctx)
                        @@ Put(p, [f EXCEPT !.i = f.i + 1])
                 ELSE IF c.res = "throw" THEN Put(p, Return(f, "false"))
                 ELSE Put(p, Propagate(f, c))
    /\ UNCHANGED <<graph, world>>

\* engine.ts 26-32: one link of the chain of an 'and'
SeekAnd(p) ==
    LET f == frames[p]
        ns == graph[f.node].nodes
        c == frames[Child(p, f.i, 1)]
    IN
    /\ f.pc = "chain"
    /\ graph[f.node].op = "and"
    /\ IF f.i = 0
       THEN frames' = Spawn(Child(p, 1, 1), ns[1], f.ctx) @@ Put(p, [f EXCEPT !.i = 1])
       ELSE /\ Settled(Child(p, f.i, 1))
            /\ frames' =
                 IF c.res = "true" /\ f.i < Len(ns)
                 THEN Spawn(Child(p, f.i + 1, 1), ns[f.i + 1], f.ctx)
                        @@ Put(p, [f EXCEPT !.i = f.i + 1])
                 ELSE Put(p, Propagate(f, c))
    /\ UNCHANGED <<graph, world>>

\* an 'or' whose chain goes on after a child has returned true
SeekOr_NoShortCircuit(p) ==
    LET f == frames[p]
        ns == graph[f.node].nodes
        c == frames[Child(p, f.i, f.att)]
    IN
    /\ f.pc = "chain"
    /\ graph[f.node].op = "or"
    /\ IF f.i = 0
       THEN frames' = Spawn(Child(p, 1, 1), ns[1], f.ctx) @@ Put(p, [f EXCEPT !.i = 1])
       ELSE /\ Settled(Child(p, f.i, f.att))
            /\ frames' =
                 IF c.res = "throw" /\ f.prev = "false" /\ f.att = 1
                 THEN Spawn(Child(p, f.i, 2), ns[f.i], f.ctx) @@ Put(p, [f EXCEPT !.att = 2])
                 ELSE IF f.i < Len(ns)
                 THEN Spawn(Child(p, f.i + 1, 1), ns[f.i + 1], f.ctx)
                        @@ Put(p, [f EXCEPT !.i = f.i + 1, !.att = 1,
                                            !.prev = IF c.res = "throw"
                                                     THEN "rejected" ELSE "false"])
                 ELSE Put(p, Propagate(f, c))
    /\ UNCHANGED <<graph, world>>

\* engine.ts 33-42: one link of the chain of an 'or'.  prev is the
\* settlement of the promise of the previous link; att = 2 when the seek of
\* the then-handler has rejected and the catch-handler seeks the node again
SeekOr(p) ==
    LET f == frames[p]
        ns == graph[f.node].nodes
        c == frames[Child(p, f.i, f.att)]
    IN
    /\ f.pc = "chain"
    /\ graph[f.node].op = "or"
    /\ IF f.i = 0
       THEN frames' = Spawn(Child(p, 1, 1), ns[1], f.ctx) @@ Put(p, [f EXCEPT !.i = 1])
       ELSE /\ Settled(Child(p, f.i, f.att))
            /\ frames' =
                 IF c.res = "true" THEN Put(p, Propagate(f, c))
                 ELSE IF c.res = "throw" /\ f.prev = "false" /\ f.att = 1
                 THEN Spawn(Child(p, f.i, 2), ns[f.i], f.ctx) @@ Put(p, [f EXCEPT !.att = 2])
                 ELSE IF f.i < Len(ns)
                 THEN Spawn(Child(p, f.i + 1, 1), ns[f.i + 1], f.ctx)
                        @@ Put(p, [f EXCEPT !.i = f.i + 1, !.att = 1,
                                            !.prev = IF c.res = "throw"
                                                     THEN "rejected" ELSE "false"])
                 ELSE Put(p, Propagate(f, c))
    /\ UNCHANGED <<graph, world>>

Kids(p) == {Child(p, j, 1) : j \in DOMAIN graph[frames[p].node].nodes}

\* an 'all' that settles as the first of its children to settle does
SeekAll_Race(p) ==
    LET f == frames[p] IN
    /\ f.pc = "join"
    /\ graph[f.node].op = "all"
    /\ \E c \in Kids(p) :
          /\ Settled(c)
          /\ frames' = Put(p, Propagate(f, frames[c]))
    /\ UNCHANGED <<graph, world>>

\* an 'all' that returns false as soon as one child has returned false
SeekAll_ShortCircuit(p) ==
    LET f == frames[p] IN
    /\ f.pc = "join"
    /\ graph[f.node].op = "all"
    /\ \/ \E c \in Kids(p) :
            /\ Settled(c)
            /\ frames[c].res \in {"throw", "false"}
            /\ frames' = Put(p, Propagate(f, frames[c]))
       \/ /\ \A c \in Kids(p) : Settled(c) /\ frames[c].res = "true"
          /\ frames' = Put(p, Return(f, "true"))
    /\ UNCHANGED <<graph, world>>

\* an 'all' that waits for every child and takes a child that throws for a
\* child that returned false
SeekAll_Swallows(p) ==
    LET f == frames[p] IN
    /\ f.pc = "join"
    /\ graph[f.node].op = "all"
    /\ \A c \in Kids(p) : Settled(c)
    /\ frames' = Put(p, Return(f,
           IF {c \in Kids(p) : frames[c].res # "true"} = {}
           THEN "true" ELSE "false"))
    /\ UNCHANGED <<graph, world>>

\* engine.ts 43-48: Promise.all rejects with the first rejection, and
\* resolves once every child has resolved
SeekAll(p) ==
    LET f == frames[p] IN
    /\ f.pc = "join"
    /\ graph[f.node].op = "all"
    /\ \/ \E c \in Kids(p) :
            /\ Settled(c)
            /\ frames[c].res = "throw"
            /\ frames' = Put(p, Propagate(f, frames[c]))
       \/ /\ \A c \in Kids(p) : Settled(c) /\ frames[c].res # "throw"
          /\ frames' = Put(p, Return(f,
                 IF {c \in Kids(p) : frames[c].res # "true"} = {}
                 THEN "true" ELSE "false"))
    /\ UNCHANGED <<graph, world>>

\* an 'any' that waits until the seek of a child has returned true
SeekAny_WaitsForTrue(p) ==
    LET f == frames[p] IN
    /\ f.pc = "join"
    /\ graph[f.node].op = "any"
    /\ \E c \in Kids(p) : Settled(c) /\ frames[c].res = "true"
    /\ frames' = Put(p, Return(f, "true"))
    /\ UNCHANGED <<graph, world>>

\* an 'any' that rejects when the seek of a child has thrown
SeekAny_Rejects(p) ==
    LET f == frames[p] IN
    /\ f.pc = "join"
    /\ graph[f.node].op = "any"
    /\ \A c \in Kids(p) : Settled(c)
    /\ frames' =
         IF \E c \in Kids(p) : frames[c].res = "throw"
         THEN Put(p, Reject(f, StateError(f.node)))
         ELSE Put(p, Return(f,
                  IF {c \in Kids(p) : frames[c].res = "true"} # {}
                  THEN "true" ELSE "false"))
    /\ UNCHANGED <<graph, world>>

\* engine.ts 49-55: Promise.allSettled resolves once every child has settled
SeekAny(p) ==
    LET f == frames[p] IN
    /\ f.pc = "join"
    /\ graph[f.node].op = "any"
    /\ \A c \in Kids(p) : Settled(c)
    /\ frames' = Put(p, Return(f,
           IF {c \in Kids(p) : frames[c].res = "true"} # {}
           THEN "true" ELSE "false"))
    /\ UNCHANGED <<graph, world>>

Init ==
    /\ graph \in Graphs
    /\ \E w \in Worlds(graph) :
          world = [c \in Contexts |-> IF c = Given THEN w ELSE Blank]
    /\ frames = << >>

\* one top-level call
Next ==
    \/ Seek(1, Given, 1)
    \/ \E p \in DOMAIN frames : FirstProbe(p)
    \/ \E p \in DOMAIN frames : Requires(p)
    \/ \E p \in DOMAIN frames : RunAction(p)
    \/ \E p \in DOMAIN frames : Reprobe(p)
    \/ \E p \in DOMAIN frames : SecondProbe(p)
    \/ \E p \in DOMAIN frames : SeekAnd(p)
    \/ \E p \in DOMAIN frames : SeekOr(p)
    \/ \E p \in DOMAIN frames : SeekAll(p)
    \/ \E p \in DOMAIN frames : SeekAny(p)

Spec == Init /\ [][Next]_vars

\* One top-level call on the event loop: a continuation that is ready to
\* run is run, so a step that stays possible is eventually taken.  Every
\* callback terminates: a state read or an action that was called settles.
SpecLive == Init /\ [][Next]_vars /\ WF_vars(Next)

\* top-level calls made one after the other on the same goal and context
NextAgain ==
    \/ \E k \in 1..MaxSeeks : Seek(k, Given, 1)
    \/ \E p \in DOMAIN frames : FirstProbe(p)
    \/ \E p \in DOMAIN frames : Requires(p)
    \/ \E p \in DOMAIN frames : RunAction(p)
    \/ \E p \in DOMAIN frames : Reprobe(p)
    \/ \E p \in DOMAIN frames : SecondProbe(p)
    \/ \E p \in DOMAIN frames : SeekAnd(p)
    \/ \E p \in DOMAIN frames : SeekOr(p)
    \/ \E p \in DOMAIN frames : SeekAll(p)
    \/ \E p \in DOMAIN frames : SeekAny(p)

SpecAgain == Init /\ [][NextAgain]_vars

\* ------------------------------------------------------------------- map
\* g after f: what a callback mapped with f does to the context before it
\* hands it to the callback g stands for, c |-> g(f(c))
After(g, f) == [c \in Contexts |-> g[f[c]]]

\* the copies of the nodes ns
Copies(ns) == [j \in DOMAIN ns |-> Copy(ns[j])]

\* Testable.map: { state: State.map(n.state, f), test: Test.map(n.test, f) }
\* and nothing else of the node
TestableMap(nd, f) ==
    [kind |-> "testable", op |-> "-", nodes |-> <<>>, action |-> "-", requires |-> 0,
     via |-> After(nd.via, f), avia |-> Identity,
     parts |-> nd.parts, test |-> nd.test, desc |-> NoDescription, dvia |-> Identity,
     by |-> "map"]

\* an Actionable.map that leaves out the pre-condition of the node
ActionableMap_DropsRequires(nd, f) ==
    [TestableMap(nd, f) EXCEPT
        !.kind = nd.kind,
        !.action = nd.action,
        !.avia = After(nd.avia, f)]

\* Actionable.map: the Testable part, the action (Action.map) and, through
\* Node.map, the requires sub-node
ActionableMap(nd, f) ==
    [TestableMap(nd, f) EXCEPT
        !.kind = nd.kind,
        !.action = nd.action,
        !.avia = After(nd.avia, f),
        !.requires = IF nd.requires = 0 THEN 0 ELSE Copy(nd.requires)]

\* Operation.map: the op, the Testable part and, through Node.map, the nodes
OperationMap(nd, f) ==
    [TestableMap(nd, f) EXCEPT
        !.kind = nd.kind,
        !.op = nd.op,
        !.nodes = Copies(nd.nodes)]

\* Node.map on one node
NodeMapOne(nd, f) ==
    IF IsOperation(nd) THEN OperationMap(nd, f)
    ELSE IF IsActionable(nd) THEN ActionableMap(nd, f)
    ELSE TestableMap(nd, f)

\* Node.map(n, f): a copy of n is made, and of every node Operation.map and
\* Actionable.map reach from it through nodes and requires
NodeMap(g, n, f) ==
    [m \in {Copy(o) : o \in Reach(g, {n}, NumNodes)} |-> NodeMapOne(g[Origin(m)], f)] @@ g

\* the node of goal.map(f) for the goal of node n:
\* fromNode({ ...Described.map(node, f), ...Node.map(node, f) })
GoalMap(g, n, f) ==
    [NodeMap(g, n, f) EXCEPT
        ![Copy(n)] = IF g[n].desc = NoDescription THEN @
                     ELSE [Described(@, g[n].desc) EXCEPT !.dvia = After(g[n].dvia, f)]]

\* the goal a top-level call is made on: the one a combinator returned, or
\* the goal that was built when no combinator was applied
Goal ==
    IF DOMAIN graph = Nodes THEN 1
    ELSE CHOOSE n \in DOMAIN graph \ Nodes : \A m \in DOMAIN graph \ Nodes : n <= m

\* goal.map(f) on the goal that was built
Map(f) ==
    /\ frames = << >>
    /\ Goal = 1
    /\ graph' = GoalMap(graph, 1, f)
    /\ UNCHANGED <<world, frames>>

\* the graphs and worlds the mapped goals are drawn from: every kind of
\* node, actions that either do their work or throw
MapBehaviours == {"fix", "throw"}

MapValues == {"ok", "bad"}

InitMap ==
    /\ graph \in Graphs
    /\ \A n \in Nodes : IsActionable(graph[n]) => graph[n].action \in MapBehaviours
    /\ world \in [Contexts -> Worlds(graph)]
    /\ \A c \in Contexts : \A n \in Leaves(graph) : world[c][n] \in MapValues
    /\ frames = << >>

\* a goal is mapped, then sought with some context
NextMap ==
    \/ \E f \in [Contexts -> Contexts] : Map(f)
    \/ \E c \in Contexts : Seek(1, c, Goal)
    \/ \E p \in DOMAIN frames : FirstProbe(p)
    \/ \E p \in DOMAIN frames : Requires(p)
    \/ \E p \in DOMAIN frames : RunAction(p)
    \/ \E p \in DOMAIN frames : Reprobe(p)
    \/ \E p \in DOMAIN frames : SecondProbe(p)
    \/ \E p \in DOMAIN frames : SeekAnd(p)
    \/ \E p \in DOMAIN frames : SeekOr(p)
    \/ \E p \in DOMAIN frames : SeekAll(p)
    \/ \E p \in DOMAIN frames : SeekAny(p)

SpecMap == InitMap /\ [][NextMap]_vars

\* ------------------------------------------------ map, seek side by side
\* the goal before the map
Original == [n \in Nodes |-> graph[n]]

\* the number of calls of seek that seek(node n) makes when it seeks every
\* child and every pre-condition once
RECURSIVE Calls(_, _)
RECURSIVE CallsOf(_, _, _)
Calls(g, n) ==
    1 + CallsOf(g, g[n].nodes, 1)
      + (IF g[n].requires = 0 THEN 0 ELSE Calls(g, g[n].requires))
CallsOf(g, ns, j) ==
    IF j > Len(ns) THEN 0 ELSE Calls(g, ns[j]) + CallsOf(g, ns, j + 1)

\* goal.map(f).seek(c) and goal.seek(f(c)): the goal that map(f) returned
\* is sought with c and the goal it was made of with f(c).  The two calls
\* are made one after the other in the same turn, on the same world; from
\* then on they are two promise chains that know nothing of each other.
SeekBoth(f, c) ==
    /\ frames = << >>
    /\ DOMAIN graph # Nodes
    /\ graph = GoalMap(Original, 1, f)
    /\ frames' = Spawn(Root(1), Goal, c) @@ Spawn(Root(2), 1, f[c])
    /\ UNCHANGED <<graph, world>>

\* the call of the seek of the goal before the map that the call p of the
\* seek of the mapped goal is compared with: the same place in the call tree
Twin(p) == << <<2, p[1][2]>> >> \o Tail(p)

\* what a call on a mapped node is when it is read as a call on the node
\* the map copied, with context c
Unmapped(fr, c) ==
    [fr EXCEPT !.node = Origin(@), !.ctx = c,
               !.err = [@ EXCEPT !.origin = IF @ = 0 THEN 0 ELSE Origin(@)]]

\* what a call has done, leaving out what it has written to the console
Unlogged(fr) == [fr EXCEPT !.log = << >>]

\* the two seeks have made the same calls, and every call has done the same
\* in both: the same reads with the same outcomes, the same action calls
\* with the same snapshot, the same settlement.  The lines the calls write
\* are not compared: map keeps the description of the goal's own node only,
\* so that the calls on the nodes under it write under another label.
Balanced ==
    /\ {Twin(p) : p \in {q \in DOMAIN frames : q[1][1] = 1}}
          = {q \in DOMAIN frames : q[1][1] = 2}
    /\ \A p \in {q \in DOMAIN frames : q[1][1] = 1} :
          Unlogged(frames[Twin(p)])
              = Unlogged(Unmapped(frames[p], frames[Root(2)].ctx))

\* the step is one of the k-th top-level call: it makes a call of seek under
\* it or changes one
Stepped(k) ==
    \E p \in DOMAIN frames' :
        /\ p[1][1] = k
        /\ p \notin DOMAIN frames \/ frames'[p] # frames[p]

\* a step of the k-th top-level call after which the two seeks have done
\* the same again; when the step calls an action, the action does what the
\* action of the other seek did (it leaves the world as it finds it)
Follow(k) ==
    \E p \in DOMAIN frames :
        /\ \/ FirstProbe(p)
           \/ Requires(p)
           \/ RunAction(p)
           \/ Reprobe(p)
           \/ SecondProbe(p)
           \/ SeekAnd(p)
           \/ SeekOr(p)
           \/ SeekAll(p)
           \/ SeekAny(p)
        /\ p[1][1] = k
        /\ Balanced' /\ world' = world

\* the goals that are mapped: actions that either do their work or throw,
\* every outcome of a state reader, a call tree of at most MaxCalls calls
InitBoth ==
    /\ graph \in Graphs
    /\ Calls(graph, 1) <= MaxCalls
    /\ \A n \in Nodes : IsActionable(graph[n]) => graph[n].action \in MapBehaviours
    /\ \E w \in Worlds(graph) :
          world = [c \in Contexts |-> IF c = Given THEN w ELSE Blank]
    /\ frames = << >>

\* a goal is mapped, then the goal map returned and the goal it was made of
\* are sought side by side, the callbacks of the two settling in any order;
\* the mapped goal is given a context the callbacks of the goal were not
\* written for, so that they reach the part of the world they look at
\* through f alone
NextBoth ==
    \/ \E f \in [Contexts -> Contexts] : Map(f)
    \/ \E f \in [Contexts -> Contexts] : \E c \in Contexts \ {Given} : SeekBoth(f, c)
    \/ \E p \in DOMAIN frames : FirstProbe(p)
    \/ \E p \in DOMAIN frames : Requires(p)
    \/ \E p \in DOMAIN frames : RunAction(p)
    \/ \E p \in DOMAIN frames : Reprobe(p)
    \/ \E p \in DOMAIN frames : SecondProbe(p)
    \/ \E p \in DOMAIN frames : SeekAnd(p)
    \/ \E p \in DOMAIN frames : SeekOr(p)
    \/ \E p \in DOMAIN frames : SeekAll(p)
    \/ \E p \in DOMAIN frames : SeekAny(p)

SpecBoth == InitBoth /\ [][NextBoth]_vars

\* ------------------------------------------------------------- Goal.test
\* the outcomes goal.test(c) can have in world w
GoalTest(w, c, n) ==
    IF StateErrors(w, c, n) = {}
    THEN {IF NodeTest(w, c, n) THEN "true" ELSE "false"}
    ELSE {IF e = "missing" THEN "false" ELSE "throw" : e \in StateErrors(w, c, n)}

\* ------------------------------------------------------------ combinators
\* the action of a goal that was given a pre-condition and no action,
\* () => Promise.resolve(void 0): it changes nothing and resolves with
\* undefined
DefaultAction == "default"

\* a demotion that keeps the operator and the nodes of the Operation
GoalAction_KeepsOperation(nd, a) ==
    [nd EXCEPT !.action = a, !.avia = Identity, !.by = "action"]

\* the node of goal.action(a): { ...node, action: a }, without op and nodes
\* when the node is an Operation
GoalAction(nd, a) ==
    [nd EXCEPT !.kind = "actionable", !.op = "-", !.nodes = <<>>,
               !.action = a, !.avia = Identity, !.by = "action"]

\* a goal.requires that attaches the pre-condition and nothing else
GoalRequires_NoDefault(nd, r) == [nd EXCEPT !.requires = r, !.by = "requires"]

\* the node of goal.requires(r): { action: default, ...node, requires: r.node },
\* without op and nodes when the node is an Operation
GoalRequires(nd, r) ==
    [nd EXCEPT !.kind = "actionable", !.op = "-", !.nodes = <<>>,
               !.action = IF nd.action = "-" THEN DefaultAction ELSE nd.action,
               !.requires = r, !.by = "requires"]

\* the node of goal.description(d): Described.of(node, d)
GoalDescription(nd, d) == [Described(nd, d) EXCEPT !.by = "description"]

\* a goal.action that sets the action on the node it is applied to
WithAction_InPlace(n, a) ==
    /\ frames = << >>
    /\ Goal = 1
    /\ graph[n].kind # "unused"
    /\ graph' = (Copy(n) :> GoalAction(graph[n], a)) @@ [graph EXCEPT ![n] = GoalAction(@, a)]
    /\ UNCHANGED <<world, frames>>

\* a combinator is applied to the goal of node n, one of the goals that
\* were built; the goal it returns has a node of its own
WithAction(n, a) ==
    /\ frames = << >>
    /\ Goal = 1
    /\ graph[n].kind # "unused"
    /\ graph' = (Copy(n) :> GoalAction(graph[n], a)) @@ graph
    /\ UNCHANGED <<world, frames>>

WithRequires(n, r) ==
    /\ frames = << >>
    /\ Goal = 1
    /\ graph[n].kind # "unused"
    /\ graph[r].kind # "unused"
    /\ graph' = (Copy(n) :> GoalRequires(graph[n], r)) @@ graph
    /\ UNCHANGED <<world, frames>>

WithDescription(n, d) ==
    /\ frames = << >>
    /\ Goal = 1
    /\ graph[n].kind # "unused"
    /\ graph' = (Copy(n) :> GoalDescription(graph[n], d)) @@ graph
    /\ UNCHANGED <<world, frames>>

\* a goal.test that rethrows StateNotFound like any other error
GoalTestOn_Rethrows(n, s) ==
    IF s \in {"missing", "broken"} THEN "throw"
    ELSE IF test(n, s) THEN "true" ELSE "false"

\* fromNode.test on a settled state read
GoalTestOn(n, s) ==
    IF s = "missing" THEN "false"
    ELSE IF s = "broken" THEN "throw"
    ELSE IF test(n, s) THEN "true" ELSE "false"

\* part_008 200-203: a call goal.test(c) on the goal of node n calls the
\* state reader of the node with c and awaits it
Test(c, n) ==
    /\ frames = << >>
    /\ frames' = Root(0) :> Frame(n, c, "probe", state(c, n))
    /\ UNCHANGED <<graph, world>>

\* part_008 203-209: the read of goal.test has settled: the test of the node
\* is applied to the snapshot the read was made of, or the failure of the
\* read is caught
TestDone(p) ==
    LET f == frames[p] IN
    /\ f.pc = "probe"
    /\ \E s \in Settle(f.snap) :
          frames' = Put(p, [f EXCEPT
              !.pc = "done",
              !.p1 = s,
              !.res = GoalTestOn(f.node, s),
              !.err = IF GoalTestOn(f.node, s) = "throw"
                      THEN StateError(f.node) ELSE NoError])
    /\ UNCHANGED <<graph, world>>

\* the goals the combinators are applied to: actions that do their work, and
\* every outcome of a state reader
BuildBehaviours == {"fix"}

InitBuild ==
    /\ graph \in Graphs
    /\ \A n \in Nodes : IsActionable(graph[n]) => graph[n].action \in BuildBehaviours
    /\ \E w \in Worlds(graph) :
          world = [c \in Contexts |-> IF c = Given THEN w ELSE Blank]
    /\ frames = << >>

\* a combinator may be applied to a goal; the goal it returns is tested or
\* sought
NextBuild ==
    \/ \E n \in Nodes : \E a \in {"fix", "noop"} : WithAction(n, a)
    \/ \E n \in Nodes : \E r \in Nodes : WithRequires(n, r)
    \/ \E n \in Nodes : WithDescription(n, <<"goal", 0>>)
    \/ \E f \in [Contexts -> Contexts] : Map(f)
    \/ Test(Given, Goal)
    \/ \E p \in DOMAIN frames : TestDone(p)
    \/ Seek(1, Given, Goal)
    \/ \E p \in DOMAIN frames : FirstProbe(p)
    \/ \E p \in DOMAIN frames : Requires(p)
    \/ \E p \in DOMAIN frames : RunAction(p)
    \/ \E p \in DOMAIN frames : Reprobe(p)
    \/ \E p \in DOMAIN frames : SecondProbe(p)
    \/ \E p \in DOMAIN frames : SeekAnd(p)
    \/ \E p \in DOMAIN frames : SeekOr(p)
    \/ \E p \in DOMAIN frames : SeekAll(p)
    \/ \E p \in DOMAIN frames : SeekAny(p)

SpecBuild == InitBuild /\ [][NextBuild]_vars

\* -------------------------------------------------------- composite state
\* State.of and Test.all / Test.any on their own: the state of an Operation
\* is read, its child reads settle one by one in any order, and the
\* aggregated test is applied to the snapshot the read resolved with.

\* the forms State.of, Test.all and Test.any take several readers or tests
\* in: a tuple, or a record with a key for each
Forms == {"tuple", "dict"}

\* the key of the j-th entry of a record
Key(j) == <<"a", "b", "c", "d">>[j]

\* what the reader of node n resolves with under context c: a snapshot of
\* its own, or a failure
Reader(c, n) == <<Origin(n), world[graph[n].via[c]][Origin(n)]>>

\* the test of node n on a snapshot: it passes on the snapshots of its own
\* reader that meet it
TestOf(n, s) == s[1] = Origin(n) /\ test(n, s[2])

\* where the read of slot j was put when it does not belong there: results
\* gathered in the order the reads completed
Collect_InCompletionOrder(f) ==
    LET at(j) == f.got[f.order[j]] IN
    IF f.form = "tuple" THEN [j \in 1..Len(f.got) |-> at(j)]
    ELSE [k \in {Key(j) : j \in 1..Len(f.got)} |->
             at(CHOOSE j \in 1..Len(f.got) : Key(j) = k)]

\* the value of Promise.all over the child reads: fromTuple resolves with
\* the array of the results, fromDict merges the { [k]: s } of every key
Collect(f) ==
    LET at(j) == f.got[j] IN
    IF f.form = "tuple" THEN [j \in 1..Len(f.got) |-> at(j)]
    ELSE [k \in {Key(j) : j \in 1..Len(f.got)} |->
             at(CHOOSE j \in 1..Len(f.got) : Key(j) = k)]

\* the slot of the snapshot s the j-th test is applied to
Slot(form, s, j) == IF form = "tuple" THEN s[j] ELSE s[Key(j)]

\* a Test.all that passes when some test passes
TestAll_Some(form, tests, s) ==
    {j \in DOMAIN tests : TestOf(tests[j], Slot(form, s, j))} # {}

\* Test.all: allFromTuple / allFromDict
TestAll(form, tests, s) ==
    {j \in DOMAIN tests : ~TestOf(tests[j], Slot(form, s, j))} = {}

\* Test.any: anyFromTuple / anyFromDict
TestAny(form, tests, s) ==
    {j \in DOMAIN tests : TestOf(tests[j], Slot(form, s, j))} # {}

\* State.of(x)(c) is called for the states of the parts of node n, given as
\* a tuple or as a record: every child reader is called with c
StateOf(c, n, form) ==
    /\ frames = << >>
    /\ frames' = Root(0) :>
          [node |-> n, ctx |-> c, form |-> form, pc |-> "reading",
           called |-> [j \in DOMAIN graph[n].parts |-> c],
           pending |-> DOMAIN graph[n].parts,
           got |-> [j \in DOMAIN graph[n].parts |-> <<0, "none">>],
           order |-> <<>>,
           res |-> "none", failure |-> "none", err |-> NoError,
           snap |-> <<>>, verdict |-> "none"]
    /\ UNCHANGED <<graph, world>>

\* a composite read that keeps the error of the read that failed last
ChildRead_LastError(p, j) ==
    LET f == frames[p]
        m == graph[f.node].parts[j]
        r == Reader(f.called[j], m)
        g == [f EXCEPT !.pending = @ \ {j}, !.order = Append(@, j)]
        h == [g EXCEPT !.got[j] = r]
    IN
    /\ f.pc = "reading"
    /\ j \in f.pending
    /\ frames' =
         IF r[2] \in {"missing", "broken"}
         THEN Put(p, [g EXCEPT !.res = "rejected", !.failure = r[2],
                               !.err = StateError(m)])
         ELSE IF h.pending = {} /\ f.res = "none"
              THEN Put(p, [h EXCEPT !.res = "resolved", !.snap = Collect(h)])
              ELSE Put(p, h)
    /\ UNCHANGED <<graph, world>>

\* the read of child j settles.  Promise.all rejects at the first rejection
\* and resolves when the last read has resolved
ChildRead(p, j) ==
    LET f == frames[p]
        m == graph[f.node].parts[j]
        r == Reader(f.called[j], m)
        g == [f EXCEPT !.pending = @ \ {j}, !.order = Append(@, j)]
        h == [g EXCEPT !.got[j] = r]
    IN
    /\ f.pc = "reading"
    /\ j \in f.pending
    /\ frames' =
         IF r[2] \in {"missing", "broken"}
         THEN IF f.res = "none"
              THEN Put(p, [g EXCEPT !.res = "rejected", !.failure = r[2],
                                    !.err = StateError(m)])
              ELSE Put(p, g)
         ELSE IF h.pending = {} /\ f.res = "none"
              THEN Put(p, [h EXCEPT !.res = "resolved", !.snap = Collect(h)])
              ELSE Put(p, h)
    /\ UNCHANGED <<graph, world>>

\* node.test(c, s) of the Operation on the snapshot its state resolved with
AggregatedTest(p) ==
    LET f == frames[p]
        nd == graph[f.node]
    IN
    /\ f.pc = "reading"
    /\ f.res = "resolved"
    /\ frames' = Put(p, [f EXCEPT !.pc = "done",
                                  !.verdict =
                                      IF nd.test = "all"
                                      THEN (IF TestAll(f.form, nd.parts, f.snap)
                                            THEN "true" ELSE "false")
                                      ELSE (IF TestAny(f.form, nd.parts, f.snap)
                                            THEN "true" ELSE "false")])
    /\ UNCHANGED <<graph, world>>

\* an Operation over nodes with readers of their own, in any world
InitRead ==
    /\ graph \in Graphs
    /\ IsOperation(graph[1])
    /\ \A n \in Nodes \ {1} : ~IsOperation(graph[n])
    /\ \A n \in Nodes : IsActionable(graph[n]) =>
          graph[n].action = "noop" /\ graph[n].requires = 0
    /\ \E w \in Worlds(graph) :
          world = [c \in Contexts |-> IF c = Given THEN w ELSE Blank]
    /\ frames = << >>

NextRead ==
    \/ \E c \in Contexts : \E form \in Forms : StateOf(c, 1, form)
    \/ \E p \in DOMAIN frames : \E j \in 1..MaxChildren : ChildRead(p, j)
    \/ \E p \in DOMAIN frames : AggregatedTest(p)

SpecRead == InitRead /\ [][NextRead]_vars

\* ------------------------------------------------------- boundary goals
\* a fromNode that takes the default test whatever it is given
fromNode_DefaultOnly(t) == [Testable EXCEPT !.test = "truthy"]

\* fromNode({ state, test }): the node of a goal built from a state and,
\* possibly, a test ("none" when the input has no test): the test defaults
\* to the truthiness of the snapshot
fromNode(t) == [Testable EXCEPT !.test = IF t = "none" THEN "truthy" ELSE t]

\* Always and Never: goals built from a state alone, which resolves with
\* true, or with false, whatever the context
Always == [c \in Contexts |-> [n \in Nodes |-> "true"]]

Never == [c \in Contexts |-> [n \in Nodes |-> "false"]]

\* a goal built from a state, with or without a test of its own; its reader
\* resolves with any snapshot, or finds no state
InitOf ==
    /\ \E t \in {"none", "-"} :
          graph = [n \in Nodes |-> IF n = 1 THEN fromNode(t) ELSE Unused]
    /\ world \in [Contexts -> [Nodes -> Snapshots \cup {"missing"}]]
    /\ \A c \in Contexts : \A n \in Nodes \ {1} : world[c][n] = world[c][1]
    /\ frames = << >>

NextOf ==
    \/ \E c \in Contexts : Seek(1, c, 1)
    \/ \E p \in DOMAIN frames : FirstProbe(p)

SpecOf == InitOf /\ [][NextOf]_vars

\* ------------------------------------------------------------ resumption
\* The process is interrupted while the first seek is in progress: the calls
\* in progress are lost, what the actions did to the world stays.  The
\* process starts again and calls seek on the same goal.
Resume(c) ==
    /\ Root(1) \in DOMAIN frames
    /\ ~Settled(Root(1))
    /\ Root(2) \notin DOMAIN frames
    /\ frames' = Spawn(Root(2), 1, c) @@
                 [p \in DOMAIN frames |->
                     IF frames[p].pc = "done" THEN frames[p]
                     ELSE [frames[p] EXCEPT !.pc = "killed"]]
    /\ UNCHANGED <<graph, world>>

\* goals whose actions do their work: an action makes the test of its own
\* node pass and touches nothing else
InitResume ==
    /\ graph \in Graphs
    /\ \A n \in Nodes : IsActionable(graph[n]) => graph[n].action = "fix"
    /\ \E w \in Worlds(graph) :
          world = [c \in Contexts |-> IF c = Given THEN w ELSE Blank]
    /\ frames = << >>

NextResume ==
    \/ Seek(1, Given, 1)
    \/ Resume(Given)
    \/ \E p \in DOMAIN frames : FirstProbe(p)
    \/ \E p \in DOMAIN frames : Requires(p)
    \/ \E p \in DOMAIN frames : RunAction(p)
    \/ \E p \in DOMAIN frames : Reprobe(p)
    \/ \E p \in DOMAIN frames : SecondProbe(p)
    \/ \E p \in DOMAIN frames : SeekAnd(p)
    \/ \E p \in DOMAIN frames : SeekOr(p)
    \/ \E p \in DOMAIN frames : SeekAll(p)
    \/ \E p \in DOMAIN frames : SeekAny(p)

SpecResume == InitResume /\ [][NextResume]_vars

\* ------------------------------------------------- the earlier evaluator
\* seek of lib/goal/goal.ts on a parallel 'any' whose links are assertions
\* ({state, test}) and seekables ({state, test, action}) without before and
\* after goals.  The state read of the probe is awaited as it is: a reader
\* that rejects, with StateNotFound or otherwise, makes the seek throw.

\* the error Promise.any rejects with when every promise has rejected
AggregateError == [origin |-> 0, from |-> "any", description |-> NoDescription]

\* goal.ts 489-503: seek(goal, ctx) on an 'any' calls seek on every link
EarlierSeek(c) ==
    /\ frames = << >>
    /\ frames' = (Root(1) :> Frame(1, c, "join", "none")) @@
                 [q \in {Child(Root(1), j, 1) : j \in DOMAIN graph[1].nodes} |->
                     Frame(graph[1].nodes[q[2][1]], c, "test",
                           state(c, graph[1].nodes[q[2][1]]))]
    /\ UNCHANGED <<graph, world>>

\* goal.ts 508-524: the state read has settled.  When the test fails on a
\* link that has an action, the action is called at once, with the snapshot
\* of this read: nothing is awaited between the read and the call.
EarlierProbe(p) ==
    LET f == frames[p]
        s == f.snap
        g == [f EXCEPT !.p1 = s]
        called == ~(s \in {"missing", "broken"}) /\ ~test(f.node, s)
                     /\ IsActionable(graph[f.node])
    IN
    /\ f.pc = "test"
    /\ frames' =
         IF s \in {"missing", "broken"} THEN Put(p, Reject(g, StateError(f.node)))
         ELSE IF test(f.node, s) THEN Put(p, Return(g, "true"))
         ELSE IF ~IsActionable(graph[f.node]) THEN Put(p, Return(g, "false"))
         ELSE Put(p, [g EXCEPT !.pc = "acted", !.arg = s, !.calls = @ + 1])
    /\ world' = IF called THEN Effect(f.ctx, f.node) ELSE world
    /\ UNCHANGED graph

\* goal.ts 524-529: the promise of goal.action(ctx, s) has settled: a
\* rejection rejects the seek, otherwise the state is read again
EarlierAction(p) ==
    LET f == frames[p]
        a == graph[f.node].action
    IN
    /\ f.pc = "acted"
    /\ frames' = IF Throws(a)
                 THEN Put(p, Reject([f EXCEPT !.ret = "rejected"], ActionError(f.node)))
                 ELSE Put(p, [f EXCEPT !.pc = "retest", !.ret = ActionValue(a),
                                       !.snap = state(f.ctx, f.node),
                                       !.reads = @ + 1])
    /\ UNCHANGED <<graph, world>>

\* goal.ts 529-534: the second read has settled; there is no after goal
EarlierSecondProbe(p) ==
    LET f == frames[p]
        s == f.snap
        g == [f EXCEPT !.p2 = s]
    IN
    /\ f.pc = "retest"
    /\ frames' =
         IF s \in {"missing", "broken"} THEN Put(p, Reject(g, StateError(f.node)))
         ELSE Put(p, Return(g, IF test(f.node, s) THEN "true" ELSE "false"))
    /\ UNCHANGED <<graph, world>>

\* goal.ts 502-503: Promise.any resolves with the value of the first
\* promise to fulfil, true or false, and rejects when every promise has
\* rejected.  The fulfilments of two links commute, so the link taken for
\* the first is any link that has fulfilled.
EarlierAny(p) ==
    LET f == frames[p] IN
    /\ f.pc = "join"
    /\ \/ \E c \in Kids(p) :
            /\ Settled(c)
            /\ frames[c].res # "throw"
            /\ frames' = Put(p, Propagate(f, frames[c]))
       \/ /\ \A c \in Kids(p) : Settled(c) /\ frames[c].res = "throw"
          /\ frames' = Put(p, Reject(f, AggregateError))
    /\ UNCHANGED <<graph, world>>

\* an 'any' over one or two links, none of which has a pre-condition
InitEarlier ==
    /\ graph \in Graphs
    /\ IsOperation(graph[1]) /\ graph[1].op = "any"
    /\ \A n \in Nodes \ {1} : ~IsOperation(graph[n]) /\ graph[n].requires = 0
    /\ \E w \in Worlds(graph) :
          world = [c \in Contexts |-> IF c = Given THEN w ELSE Blank]
    /\ frames = << >>

NextEarlier ==
    \/ EarlierSeek(Given)
    \/ \E p \in DOMAIN frames : EarlierProbe(p)
    \/ \E p \in DOMAIN frames : EarlierAction(p)
    \/ \E p \in DOMAIN frames : EarlierSecondProbe(p)
    \/ \E p \in DOMAIN frames : EarlierAny(p)

SpecEarlier == InitEarlier /\ [][NextEarlier]_vars

\* ------------------------------------------------------------ observation
Paths == DOMAIN frames

\* the frames of the k-th top-level call
FramesOf(k) == {p \in Paths : p[1][1] = k}

NodeOf(p) == graph[frames[p].node]

Failed(s) == s \in {"bad", "missing"}

RECURSIVE SumCalls(_)
SumCalls(S) ==
    IF S = {} THEN 0
    ELSE LET p == CHOOSE q \in S : TRUE IN frames[p].calls + SumCalls(S \ {p})

\* the number of calls of the action of node n during the k-th top-level call
ActionCalls(k, n) == SumCalls({p \in FramesOf(k) : frames[p].node = n})

\* ------------------------------------------------------------------ claims

\* C1: during one top-level seek the action of each Actionable node is
\* invoked at most once, whatever the graph.
C1_AtMostOnceAction == \A n \in Nodes : ActionCalls(1, n) <= 1

\* C2: the pre-condition of an Actionable is sought only after the first
\* probe has failed, it has settled with true before the action is invoked,
\* and when it settles with false (or throws) seek returns false (or
\* rejects) without invoking the action.
C2_PreconditionOrdering ==
    \A p \in Paths :
        LET f == frames[p] IN
        IsActionable(NodeOf(p)) /\ NodeOf(p).requires # 0 =>
            /\ Pre(p) \in Paths <=> Failed(f.p1)
            /\ f.pc \in {"action", "acted", "retest"} \/ f.calls > 0 =>
                   Settled(Pre(p)) /\ frames[Pre(p)].res = "true"
            /\ Settled(Pre(p)) /\ frames[Pre(p)].res # "true" =>
                   /\ f.calls = 0
                   /\ f.pc \in {"requires", "done"}
                   /\ f.pc = "done" =>
                        f.res = frames[Pre(p)].res /\ f.err = frames[Pre(p)].err

\* an action has run after its pre-condition returned true, and another
\* seek has returned false on a pre-condition that returned false
C2_Witness ==
    /\ \E p \in Paths :
          /\ NodeOf(p).requires # 0
          /\ frames[p].calls = 1
          /\ frames[Pre(p)].res = "true"
    /\ \E p \in Paths :
          /\ NodeOf(p).requires # 0
          /\ Settled(p)
          /\ frames[p].res = "false"
          /\ frames[p].calls = 0
          /\ frames[Pre(p)].res = "false"

\* C3: when the first probe of an Actionable passes, seek returns true and
\* has invoked neither the action nor seek on the requires sub-node.
C3_NoOpOnSatisfaction ==
    \A p \in Paths :
        LET f == frames[p] IN
        IsActionable(NodeOf(p)) /\ f.p1 = "ok" =>
            /\ f.pc = "done"
            /\ f.res = "true"
            /\ f.calls = 0
            /\ f.reads = 1
            /\ Pre(p) \notin Paths

C3_Witness ==
    \E p \in Paths :
        /\ IsActionable(NodeOf(p))
        /\ NodeOf(p).requires # 0
        /\ frames[p].p1 = "ok"
        /\ Settled(p)

\* C4: idempotence.  When seek(g, c) has returned true, an immediately
\* following second seek(g, c) returns true and invokes no action.
C4_Idempotence ==
    Settled(Root(1)) /\ frames[Root(1)].res = "true" =>
        /\ \A n \in Nodes : ActionCalls(2, n) = 0
        /\ Settled(Root(2)) => frames[Root(2)].res = "true"

\* C5: at the moment seek(goal, ctx) returns true, goal.test(ctx) yields
\* true on the world as it is then.
C5_MetOnReturn ==
    [][(/\ ~Settled(Root(1))
        /\ Root(1) \in DOMAIN frames'
        /\ frames'[Root(1)].pc = "done"
        /\ frames'[Root(1)].res = "true") => GoalTest(world', Given, 1) = {"true"}]_vars

\* C6: a first probe whose state reader fails with StateNotFound counts as
\* a failed test: seek does not throw on it, a bare Testable returns false,
\* an Actionable seeks its pre-condition and then calls its action, with an
\* undefined snapshot when the re-read fails too.
C6_StateNotFoundDemotion ==
    \A p \in Paths :
        LET f == frames[p]
            nd == NodeOf(p)
        IN
        f.p1 = "missing" =>
            /\ ~IsActionable(nd) => f.pc = "done" /\ f.res = "false"
            /\ IsActionable(nd) /\ nd.requires # 0 => Pre(p) \in Paths
            /\ IsActionable(nd) /\ f.pc # "requires" /\ (nd.requires = 0 \/
                   (Settled(Pre(p)) /\ frames[Pre(p)].res = "true")) =>
                   f.calls = 1 \/ f.pc = "action"
            /\ f.calls = 1 /\ f.rr = "missing" => f.arg = "undefined"
            /\ f.pc = "done" /\ f.res = "throw" =>
                   \/ f.calls = 1
                   \/ nd.requires # 0 /\ frames[Pre(p)].res = "throw"

\* the action of a node whose state is not found has been called with an
\* undefined snapshot, and seek has returned false
C6_Witness ==
    \E p \in Paths :
        /\ frames[p].p1 = "missing"
        /\ frames[p].rr = "missing"
        /\ frames[p].calls = 1
        /\ frames[p].arg = "undefined"
        /\ frames[p].p2 = "missing"
        /\ frames[p].res = "false"

\* C7: an Actionable without requires whose first probe fails and whose
\* action does not throw invokes the action exactly once and settles with
\* the outcome of the re-probe made after the action; the value the action
\* resolved with plays no role.
C7_ReprobeDecides ==
    \A p \in Paths :
        LET f == frames[p]
            nd == NodeOf(p)
        IN
        /\ IsActionable(nd)
        /\ nd.requires = 0
        /\ ~Throws(nd.action)
        /\ Failed(f.p1)
        =>
            /\ f.pc # "action" => f.calls = 1
            /\ f.pc = "done" => /\ f.p2 # "none"
                                /\ f.res = hasGoalBeenMet(f.node, f.p2)
                                /\ f.reads = 3

\* an action that resolved with true left the test failing and seek
\* returned false
C7_Witness ==
    \E p \in Paths :
        /\ NodeOf(p).requires = 0
        /\ frames[p].calls = 1
        /\ frames[p].ret = "true"
        /\ frames[p].pc = "done"
        /\ frames[p].res = "false"

IsOp(p, o) == IsOperation(NodeOf(p)) /\ NodeOf(p).op = o

\* child j of the operation frame at p has returned r
ChildReturned(p, j, r) ==
    Settled(Child(p, j, 1)) /\ frames[Child(p, j, 1)].res = r

\* C8: in an 'and', child i+1 is sought if and only if every child 1..i
\* has returned true, and the 'and' returns true iff every child has
\* returned true.
C8_AndShortCircuit ==
    \A p \in Paths :
        LET f == frames[p]
            ns == NodeOf(p).nodes
        IN
        IsOp(p, "and") =>
            /\ \A j \in DOMAIN ns : Child(p, j, 2) \notin Paths
            /\ \A j \in DOMAIN ns :
                 Child(p, j, 1) \in Paths =>
                     \A h \in 1..(j - 1) : ChildReturned(p, h, "true")
            /\ f.pc = "done" =>
                 /\ \A j \in DOMAIN ns :
                      (\A h \in 1..(j - 1) : ChildReturned(p, h, "true"))
                          => Child(p, j, 1) \in Paths
                 /\ f.res = "true" <=> \A j \in DOMAIN ns : ChildReturned(p, j, "true")
                 /\ f.res = "false" <=> \E j \in DOMAIN ns : ChildReturned(p, j, "false")

\* an 'and' has returned false on its first child and has not sought the
\* second one
C8_Witness ==
    \E p \in Paths :
        /\ IsOp(p, "and")
        /\ Len(NodeOf(p).nodes) = 2
        /\ NodeOf(p).nodes[1] # NodeOf(p).nodes[2]
        /\ ChildReturned(p, 1, "false")
        /\ Child(p, 2, 1) \notin Paths
        /\ Settled(p)
        /\ frames[p].res = "false"

\* no seek of a child of the operation frame at p has thrown
NoChildThrew(p) ==
    \A j \in DOMAIN NodeOf(p).nodes : \A a \in {1, 2} :
        Child(p, j, a) \in Paths => frames[Child(p, j, a)].res # "throw"

\* C9: in an 'or' none of whose children throws, child i+1 is sought if
\* and only if every child 1..i has returned false, and the 'or' returns
\* true iff some child has returned true.
C9_OrShortCircuit ==
    \A p \in Paths :
        LET f == frames[p]
            ns == NodeOf(p).nodes
        IN
        IsOp(p, "or") /\ NoChildThrew(p) =>
            /\ \A j \in DOMAIN ns : Child(p, j, 2) \notin Paths
            /\ \A j \in DOMAIN ns :
                 Child(p, j, 1) \in Paths =>
                     \A h \in 1..(j - 1) : ChildReturned(p, h, "false")
            /\ f.pc = "done" =>
                 /\ \A j \in DOMAIN ns :
                      (\A h \in 1..(j - 1) : ChildReturned(p, h, "false"))
                          => Child(p, j, 1) \in Paths
                 /\ f.res = "true" <=> \E j \in DOMAIN ns : ChildReturned(p, j, "true")
                 /\ f.res \in {"true", "false"}

\* an 'or' has returned true on its first child and has not sought the
\* second one
C9_Witness ==
    \E p \in Paths :
        /\ IsOp(p, "or")
        /\ Len(NodeOf(p).nodes) = 2
        /\ NodeOf(p).nodes[1] # NodeOf(p).nodes[2]
        /\ ChildReturned(p, 1, "true")
        /\ Child(p, 2, 1) \notin Paths
        /\ Settled(p)
        /\ frames[p].res = "true"

\* C10: an 'all' starts the seek of every child whatever its siblings do
\* (the state of each leaf child is read), and when no child throws it
\* returns true iff every child has returned true.
C10_AllNoShortCircuit ==
    \A p \in Paths :
        LET f == frames[p]
            ns == NodeOf(p).nodes
        IN
        IsOp(p, "all") =>
            /\ \A j \in DOMAIN ns :
                 /\ Child(p, j, 1) \in Paths
                 /\ ~IsOperation(graph[ns[j]]) => frames[Child(p, j, 1)].reads >= 1
            /\ f.pc = "done" /\ NoChildThrew(p) =>
                 /\ \A j \in DOMAIN ns : Settled(Child(p, j, 1))
                 /\ f.res = "true" <=> \A j \in DOMAIN ns : ChildReturned(p, j, "true")
                 /\ f.res \in {"true", "false"}

\* an 'all' has returned false: its first child returned false, and the
\* action of its second child has run all the same
C10_Witness ==
    \E p \in Paths :
        /\ IsOp(p, "all")
        /\ Len(NodeOf(p).nodes) = 2
        /\ ChildReturned(p, 1, "false")
        /\ frames[Child(p, 1, 1)].calls = 0
        /\ ChildReturned(p, 2, "true")
        /\ frames[Child(p, 2, 1)].calls = 1
        /\ Settled(p)
        /\ frames[p].res = "false"

\* C11: an 'any' starts the seek of every child, settles only once every
\* child has settled, never throws, and returns true iff the seek of at
\* least one child has returned true; a child that throws counts as not true.
C11_AnyNeverThrows ==
    \A p \in Paths :
        LET f == frames[p]
            ns == NodeOf(p).nodes
        IN
        IsOp(p, "any") =>
            /\ \A j \in DOMAIN ns :
                 /\ Child(p, j, 1) \in Paths
                 /\ ~IsOperation(graph[ns[j]]) => frames[Child(p, j, 1)].reads >= 1
            /\ f.pc = "done" =>
                 /\ \A j \in DOMAIN ns : Settled(Child(p, j, 1))
                 /\ f.res \in {"true", "false"}
                 /\ f.res = "true" <=> \E j \in DOMAIN ns : ChildReturned(p, j, "true")

\* an 'any' has returned true although the seek of its first child threw:
\* its second child ran its action and returned true
C11_Witness ==
    \E p \in Paths :
        /\ IsOp(p, "any")
        /\ Len(NodeOf(p).nodes) = 2
        /\ ChildReturned(p, 1, "throw")
        /\ ChildReturned(p, 2, "true")
        /\ frames[Child(p, 2, 1)].calls = 1
        /\ Settled(p)
        /\ frames[p].res = "true"

\* C12: in an 'or', once the seek of a child j that has a next child has
\* thrown, the 'or' goes on with child j+1, and it returns true when a later
\* child returns true and false when every later child returns false.
C12_OrSkipsThrow ==
    \A p \in Paths :
        LET f == frames[p]
            ns == NodeOf(p).nodes
        IN
        IsOp(p, "or") /\ f.pc = "done" =>
            \A j \in 1..(Len(ns) - 1) :
                ChildReturned(p, j, "throw") =>
                    /\ Child(p, j + 1, 1) \in Paths
                    /\ (\E h \in (j + 1)..Len(ns) : ChildReturned(p, h, "true"))
                           => f.res = "true"
                    /\ (\A h \in (j + 1)..Len(ns) : ChildReturned(p, h, "false"))
                           => f.res = "false"

\* child j of the operation frame at p has thrown
ChildThrew(p, j) == ChildReturned(p, j, "throw")

\* C13: in an 'and', when the seek of a child throws no later child is
\* sought, and the 'and' settles by rejecting with the error of that child.
C13_AndAbortsOnThrow ==
    \A p \in Paths :
        LET f == frames[p]
            ns == NodeOf(p).nodes
        IN
        IsOp(p, "and") =>
            \A j \in DOMAIN ns :
                ChildThrew(p, j) =>
                    /\ \A h \in (j + 1)..Len(ns) : Child(p, h, 1) \notin Paths
                    /\ Child(p, j, 2) \notin Paths
                    /\ f.pc \in {"chain", "done"}
                    /\ f.pc = "done" =>
                         /\ f.res = "throw"
                         /\ f.err = frames[Child(p, j, 1)].err

\* an 'and' of two different children has rejected with the error of its
\* first child, whose action threw, without seeking the second
C13_Witness ==
    \E p \in Paths :
        /\ IsOp(p, "and")
        /\ Len(NodeOf(p).nodes) = 2
        /\ NodeOf(p).nodes[1] # NodeOf(p).nodes[2]
        /\ ChildThrew(p, 1)
        /\ frames[Child(p, 1, 1)].calls = 1
        /\ Child(p, 2, 1) \notin Paths
        /\ Settled(p)
        /\ frames[p].res = "throw"
        /\ frames[p].err = ActionError(NodeOf(p).nodes[1])

\* C14: an 'all' one of whose children has thrown settles by rejecting with
\* the error of a child that threw, also when another child has returned
\* false; it rejects for no other reason.
C14_AllRejectsOnThrow ==
    \A p \in Paths :
        LET f == frames[p]
            ns == NodeOf(p).nodes
        IN
        IsOp(p, "all") /\ f.pc = "done" =>
            /\ (\E j \in DOMAIN ns : ChildThrew(p, j)) => f.res = "throw"
            /\ f.res = "throw" =>
                 \E j \in DOMAIN ns :
                     ChildThrew(p, j) /\ f.err = frames[Child(p, j, 1)].err

\* an 'all' has rejected although its first child had returned false
\* before the action of its second child threw
C14_Witness ==
    \E p \in Paths :
        /\ IsOp(p, "all")
        /\ Len(NodeOf(p).nodes) = 2
        /\ ChildReturned(p, 1, "false")
        /\ ChildThrew(p, 2)
        /\ frames[Child(p, 2, 1)].calls = 1
        /\ Settled(p)
        /\ frames[p].res = "throw"

\* C15: when the state reader of a leaf fails with an error other than
\* StateNotFound on the first probe or on the re-probe, seek on the node
\* rejects with that error; on the first probe it has sought no
\* pre-condition, called no action and read the state only once.
C15_StateErrorIsFatal ==
    \A p \in Paths :
        LET f == frames[p] IN
        /\ f.p1 = "broken" =>
              /\ f.pc = "done"
              /\ f.res = "throw"
              /\ f.err = StateError(f.node)
              /\ f.calls = 0
              /\ f.reads = 1
              /\ Pre(p) \notin Paths
        /\ f.p2 = "broken" =>
              /\ f.pc = "done"
              /\ f.res = "throw"
              /\ f.err = StateError(f.node)

\* the seek of an Actionable with a pre-condition has rejected on its first
\* probe, and another seek has rejected on the re-probe after its action
C15_Witness ==
    /\ \E p \in Paths :
          /\ IsActionable(NodeOf(p))
          /\ NodeOf(p).requires # 0
          /\ frames[p].p1 = "broken"
          /\ frames[p].res = "throw"
    /\ \E p \in Paths :
          /\ frames[p].calls = 1
          /\ frames[p].p2 = "broken"
          /\ frames[p].res = "throw"

\* C16: when the action of an Actionable throws, seek on the node rejects
\* with the error of the action and makes no re-probe (the state reader has
\* been called for the first probe and for the re-read only): once the
\* action has been called the seek waits for its promise, and settles only
\* by rejecting with that error.
C16_ActionErrorIsFatal ==
    \A p \in Paths :
        LET f == frames[p] IN
        IsActionable(NodeOf(p)) /\ Throws(NodeOf(p).action) /\ f.calls > 0 =>
            /\ f.calls = 1
            /\ f.pc \in {"acted", "done"}
            /\ f.pc = "done" => f.res = "throw" /\ f.err = ActionError(f.node)
            /\ f.p2 = "none"
            /\ f.reads = 2

\* an action has thrown after it made the test of its node pass, and the
\* seek has rejected
C16_Witness ==
    \E p \in Paths :
        /\ NodeOf(p).action = "mend"
        /\ frames[p].calls = 1
        /\ world[Given][frames[p].node] = "ok"
        /\ frames[p].res = "throw"

\* a callback of the seek at p has failed: the state reader of a probe
\* has rejected with an error other than StateNotFound, or the promise of
\* the action has rejected (an action that was called and whose promise is
\* still awaited has not failed)
CallbackFailed(p) ==
    \/ frames[p].p1 = "broken"
    \/ frames[p].p2 = "broken"
    \/ frames[p].ret = "rejected"

\* a callback of the seek at p has failed, or the seek of its
\* pre-condition has thrown
Erred(p) ==
    \/ CallbackFailed(p)
    \/ Pre(p) \in Paths /\ frames[Pre(p)].res = "throw"

\* C17 (as documented in the README): when an error occurs at a stage of
\* seeking a goal, the engine catches it and seek returns false: seek on a
\* Testable or an Actionable never throws.
C17_ErrorsReturnFalse ==
    \A p \in Paths :
        ~IsOperation(NodeOf(p)) /\ Settled(p) =>
            /\ frames[p].res # "throw"
            /\ Erred(p) => frames[p].res = "false"

\* C17 (amended): seek on a Testable or an Actionable throws exactly when
\* an error has occurred at one of its stages (a state reader failing with
\* an error other than StateNotFound on the first probe or on the re-probe,
\* the action throwing, the seek of the pre-condition throwing), and it then
\* carries that error; it returns false only when no such error occurred.
C17_ErrorsPropagate ==
    \A p \in Paths :
        LET f == frames[p] IN
        ~IsOperation(NodeOf(p)) /\ Settled(p) =>
            /\ Erred(p) <=> f.res = "throw"
            /\ f.res = "throw" <=> f.err # NoError
            /\ f.res = "throw" =>
                 \/ f.err \in {StateError(f.node), ActionError(f.node)}
                 \/ f.err = frames[Pre(p)].err

\* the top-level seek of an Actionable with a pre-condition has thrown
\* because the action of the pre-condition threw
C17_Witness ==
    /\ IsActionable(graph[1])
    /\ graph[1].requires # 0
    /\ Settled(Root(1))
    /\ frames[Root(1)].res = "throw"
    /\ frames[Root(1)].calls = 0
    /\ Pre(Root(1)) \in Paths
    /\ frames[Pre(Root(1))].calls = 1
    /\ frames[Root(1)].err = ActionError(graph[1].requires)

\* the seek at q was called, directly or not, by the seek at p (or is it)
Under(p, q) == Len(q) >= Len(p) /\ SubSeq(q, 1, Len(p)) = p

\* C18: seek throws only on a failure of a callback: a seek that has
\* rejected carries the error of a callback that failed in a seek called
\* under it, so that when no state reader fails with an error other than
\* StateNotFound and no action throws every seek returns true or false.
C18_ThrowsOnlyOnCallbackFailure ==
    /\ \A p \in Paths :
          frames[p].res = "throw" =>
              \E q \in Paths :
                  /\ Under(p, q)
                  /\ CallbackFailed(q)
                  /\ frames[q].err = frames[p].err
    /\ (\A q \in Paths : ~CallbackFailed(q)) =>
          \A p \in Paths : Settled(p) => frames[p].res \in {"true", "false"}

\* a top-level seek has returned false and no callback has failed in it,
\* although a state was not found and an action has run
C18_Witness ==
    /\ Settled(Root(1))
    /\ frames[Root(1)].res = "false"
    /\ \A q \in Paths : ~CallbackFailed(q) /\ Settled(q)
    /\ \E q \in Paths : frames[q].p1 = "missing" /\ frames[q].calls = 1
    /\ \E q \in Paths : IsOperation(NodeOf(q))

\* C19: when the top-level seek throws, the error it throws carries the
\* description of the node whose callback failed.
C19_ErrorNamesNode ==
    Settled(Root(1)) /\ frames[Root(1)].res = "throw" =>
        frames[Root(1)].err.description = description(frames[Root(1)].err.origin)

\* the context the state and the test of the seek at p are called with
StateContext(p) == NodeOf(p).via[frames[p].ctx]

\* the context the action of the seek at p is called with
ActionContext(p) == NodeOf(p).avia[frames[p].ctx]

\* C20: context map faithfulness.  When a goal mapped with f is sought
\* with context c', every seek of the call tree is given c', and the state,
\* the test and the action of every node are called with f(c').  Sought
\* side by side with the goal before the map given f(c'), neither seek
\* takes a step that the other cannot take as well, at the same place of
\* the call tree and with the same effect: as long as their callbacks settle
\* in the same order the two make the same calls, read the same snapshots,
\* call the same actions in the same order with the same argument, change
\* the world in the same way and settle with the same outcome, true, false
\* or the same error thrown.
C20_MapFaithful ==
    /\ [](Root(1) \in Paths =>
            LET c == frames[Root(1)].ctx
                fc == graph[frames[Root(1)].node].via[c]
            IN
            /\ \A p \in FramesOf(1) :
                  /\ frames[p].ctx = c
                  /\ StateContext(p) = fc
                  /\ IsActionable(NodeOf(p)) => ActionContext(p) = fc
                  /\ frames[p].snap \in Values /\ frames[p].calls = 0
                     /\ (\A q \in Paths : frames[q].calls = 0)
                         => frames[p].snap = world[fc][Origin(frames[p].node)]
            /\ \A p \in FramesOf(2) :
                  /\ frames[p].ctx = fc
                  /\ frames[p].node \in Nodes
            /\ (Balanced /\ Settled(Root(1))) =>
                  /\ Settled(Root(2))
                  /\ frames[Root(2)].res = frames[Root(1)].res
                  /\ frames[Root(2)].err = Unmapped(frames[Root(1)], fc).err
                  /\ \A n \in Nodes : ActionCalls(2, n) = ActionCalls(1, Copy(n)))
    /\ [][/\ (Stepped(1) /\ Stepped(2)) => Balanced'
          /\ (Balanced /\ Stepped(1) /\ ~Stepped(2)) => (ENABLED Follow(2))'
          /\ (Balanced /\ Stepped(2) /\ ~Stepped(1)) => (ENABLED Follow(1))']_vars

\* a goal was mapped with a function that is not the identity and sought
\* with a context the function changes, side by side with the goal before
\* the map: both seeks have settled after the same steps; the state of the
\* pre-condition of a child of the root Operation was not found, and its
\* action has run on the mapped context, once in each seek
C20_Witness ==
    /\ Settled(Root(1)) /\ Settled(Root(2))
    /\ Balanced
    /\ \E p \in FramesOf(1) :
          /\ Len(p) = 3
          /\ p[2][1] # 0
          /\ p[3][1] = 0
          /\ frames[p].ctx # StateContext(p)
          /\ frames[p].p1 = "missing"
          /\ frames[p].calls = 1
          /\ frames[p].res = "true"
          /\ frames[Twin(p)].calls = 1
          /\ frames[Twin(p)].node = Origin(frames[p].node)
          /\ world[ActionContext(p)][Origin(frames[p].node)] = "ok"

\* a node that goal.action or goal.requires made of an Operation
Demoted(n) == n \notin Nodes /\ IsOperation(graph[Origin(n)]) /\ graph[n].action # "-"

\* C21: action(a) or requires(r) on a goal whose node is an Operation gives
\* an Actionable with the state and the test of the Operation and without
\* its operator and nodes: seek on it probes the aggregated state and test
\* (the probe is what goal.test of the Operation yields), seeks no child
\* (under its frame there is only the seek of the pre-condition, and nothing
\* at all when it has none), runs the attached action at most once (the
\* default action in the requires case) and returns what the re-probe
\* yields.
C21_OperationDemotion ==
    /\ \A n \in DOMAIN graph \ Nodes :
          Demoted(n) =>
              /\ IsActionable(graph[n])
              /\ graph[n].op = "-" /\ graph[n].nodes = <<>>
              /\ graph[n].parts = graph[Origin(n)].parts
              /\ graph[n].test = graph[Origin(n)].test
              /\ graph[n].via = graph[Origin(n)].via
              /\ graph[n].requires # 0 => graph[n].action = DefaultAction
    /\ \A p \in DOMAIN frames :
          Demoted(frames[p].node) =>
              LET f == frames[p] IN
              /\ \A q \in DOMAIN frames :
                    (Len(q) = Len(p) + 1 /\ SubSeq(q, 1, Len(p)) = p) => q = Pre(p)
              /\ graph[f.node].requires = 0 =>
                    \A q \in DOMAIN frames :
                        (Len(q) > Len(p) /\ SubSeq(q, 1, Len(p)) = p) => FALSE
              /\ (f.p1 # "none" /\ \A q \in DOMAIN frames : frames[q].calls = 0)
                    => hasGoalBeenMet(f.node, f.p1) \in GoalTest(world, f.ctx, Origin(f.node))
              /\ f.calls <= 1
              /\ f.p1 = "ok" => f.calls = 0
              /\ (f.pc = "done" /\ f.calls = 1)
                    => f.p2 # "none" /\ f.res = hasGoalBeenMet(f.node, f.p2)

\* an 'all' or 'any' of two different nodes, one of them without state, was
\* given an action and sought: the action ran and the seek returned true
C21_Witness ==
    /\ Root(1) \in DOMAIN frames
    /\ Demoted(frames[Root(1)].node)
    /\ graph[frames[Root(1)].node].requires = 0
    /\ Len(graph[frames[Root(1)].node].parts) = 2
    /\ graph[frames[Root(1)].node].parts[1] # graph[frames[Root(1)].node].parts[2]
    /\ frames[Root(1)].p1 = "missing"
    /\ frames[Root(1)].calls = 1
    /\ frames[Root(1)].res = "true"

\* C22: no step changes a node that exists: map, action, requires and
\* description add the nodes of the goal they return and leave every other
\* node (state, test, action, requires, op, nodes, description), the world
\* and the calls in progress as they are; a node other nodes refer to is the
\* same node for each of them afterwards.
C22_NeverMutates ==
    [][/\ \A n \in DOMAIN graph : n \in DOMAIN graph' /\ graph'[n] = graph[n]
       /\ graph' # graph => world' = world /\ frames' = frames]_vars

\* a combinator was applied to a goal whose node refers to a node that
\* another node refers to as well, and the goal it returned was sought
C22_Witness ==
    \E n \in Nodes : \E k \in Nodes \ {n} :
        /\ Copy(n) \in DOMAIN graph
        /\ graph[Copy(n)] # graph[n]
        /\ Refs(graph[n]) \cap Refs(graph[k]) # {}
        /\ Refs(graph[Copy(n)]) \cap Refs(graph[k]) # {}
        /\ Settled(Root(1))
        /\ frames[Root(1)].node = Copy(n)

\* a node goal.requires made
FromRequires(n) == n \in DOMAIN graph /\ graph[n].by = "requires"

\* C30: requires(r) gives an Actionable; its action is the default no-op one
\* when the goal had no action and the action of the goal otherwise.  When
\* the probe of a goal with the default action fails, r is sought; when r
\* returns false the goal returns false and its action is not called; when r
\* returns true the action is called once, resolves with undefined, and the
\* goal returns what the re-probe yields.
C30_RequiresDefaultAction ==
    /\ \A n \in DOMAIN graph :
          FromRequires(n) =>
              /\ IsActionable(graph[n])
              /\ graph[n].requires \in Nodes
              /\ graph[n].action =
                    IF graph[Origin(n)].action = "-" THEN DefaultAction
                    ELSE graph[Origin(n)].action
    /\ \A p \in DOMAIN frames \ {Root(0)} :
          FromRequires(frames[p].node) /\ graph[Origin(frames[p].node)].action = "-" =>
              LET f == frames[p] IN
              /\ f.p1 = "ok" => Pre(p) \notin DOMAIN frames /\ f.res = "true" /\ f.calls = 0
              /\ Failed(f.p1) =>
                    /\ Pre(p) \in DOMAIN frames
                    /\ frames[Pre(p)].node = graph[f.node].requires
                    /\ frames[Pre(p)].ctx = f.ctx
                    /\ ~Settled(Pre(p)) => f.pc = "requires"
                    /\ (Settled(Pre(p)) /\ frames[Pre(p)].res = "false")
                          => /\ f.pc \in {"requires", "done"}
                             /\ f.calls = 0
                             /\ f.pc = "done" => f.res = "false"
                    /\ (Settled(Pre(p)) /\ frames[Pre(p)].res = "true" /\ f.pc = "done")
                          => /\ f.calls = 1
                             /\ f.ret = "undefined"
                             /\ f.res = hasGoalBeenMet(f.node, f.p2)

\* a goal without action, not an Operation, was given a pre-condition and
\* sought: its test failed, the action of the pre-condition ran and the
\* pre-condition returned true, the default action was called and the goal
\* returned what its re-probe yielded
C30_Witness ==
    /\ Settled(Root(1))
    /\ FromRequires(frames[Root(1)].node)
    /\ graph[frames[Root(1)].node].action = DefaultAction
    /\ graph[frames[Root(1)].node].parts = <<>>
    /\ frames[Root(1)].p1 = "bad"
    /\ frames[Pre(Root(1))].calls = 1
    /\ frames[Pre(Root(1))].res = "true"
    /\ frames[Root(1)].calls = 1
    /\ frames[Root(1)].res = "false"

\* C24: goal.test(c) reads the state of the node with c; it returns false
\* when the read fails with StateNotFound, rejects with the error of the
\* reader when the read fails otherwise, and returns test(c, s) on the
\* snapshot s when the read succeeds.  The snapshot is the one read when
\* goal.test was called, whatever a seek has done since; as long as no
\* action has run it is the state of the world.  It calls no action and
\* seeks no pre-condition: the call is the only one there is.
C24_GoalTest ==
    Root(0) \in DOMAIN frames =>
        LET f == frames[Root(0)]
            leaf == graph[f.node].parts = << >>
        IN
        /\ f.pc \in {"probe", "done"}
        /\ f.reads = 1
        /\ f.calls = 0
        /\ \A p \in DOMAIN frames : p[1] = Root(0)[1] => p = Root(0)
        /\ (\A p \in DOMAIN frames : frames[p].calls = 0) =>
              f.snap = state(f.ctx, f.node)
        /\ f.pc = "probe" => f.res = "none" /\ f.p1 = "none"
        /\ f.pc = "done" =>
              /\ f.p1 \in Settle(f.snap)
              /\ f.p1 = "missing" => f.res = "false" /\ f.err = NoError
              /\ f.p1 = "broken" => f.res = "throw" /\ f.err = StateError(f.node)
              /\ f.p1 \notin {"missing", "broken"} =>
                    /\ f.err = NoError
                    /\ f.res = (IF (IF leaf THEN test(f.node, f.p1) ELSE f.p1 = "ok")
                                THEN "true" ELSE "false")
                    /\ (\A p \in DOMAIN frames : frames[p].calls = 0) =>
                          f.res = (IF NodeTest(world, f.ctx, f.node)
                                   THEN "true" ELSE "false")

\* goal.test was called on an Actionable with a pre-condition whose state
\* was not found: it returned false
C24_Witness ==
    /\ Root(0) \in DOMAIN frames
    /\ IsActionable(graph[frames[Root(0)].node])
    /\ graph[frames[Root(0)].node].requires # 0
    /\ graph[frames[Root(0)].node].action \in BuildBehaviours
    /\ frames[Root(0)].p1 = "missing"
    /\ frames[Root(0)].res = "false"

\* the node is an Operation whose nodes are all Testables without action
\* and pre-condition
OverTestables(n) ==
    /\ IsOperation(graph[n])
    /\ \A j \in DOMAIN graph[n].nodes : graph[graph[n].nodes[j]].kind = "testable"

\* C25: for a goal of an Operation over bare Testables, goal.test(c) yields
\* what goal.seek(c) returned, in every world (no action exists, so the
\* world is the one the seek ran in), for each operator; the state readers
\* succeed or fail with StateNotFound.
C25_TestIsSeek ==
    (/\ OverTestables(1)
     /\ "broken" \notin StateErrors(world, Given, 1)
     /\ Settled(Root(1)))
        => GoalTest(world, Given, 1) = {frames[Root(1)].res}

\* the snapshot the reader of the j-th part of the Operation read at p
\* resolves with
PartRead(p, j) == Reader(frames[p].ctx, graph[frames[p].node].parts[j])

\* C26: the aggregated test of an Operation applies the test of each child
\* to the slot of the snapshot at the position (tuple form) or key (record
\* form) of the child: for 'and' and 'all' it is true iff the test of every
\* child passes on the snapshot of that child, for 'or' and 'any' iff the
\* test of at least one child does.
C26_AggregatedTest ==
    \A p \in DOMAIN frames :
        frames[p].verdict # "none" =>
            LET nd == graph[frames[p].node]
                met == {j \in DOMAIN nd.parts : TestOf(nd.parts[j], PartRead(p, j))}
            IN
            /\ nd.op \in {"and", "all"} =>
                  (frames[p].verdict = "true" <=> met = DOMAIN nd.parts)
            /\ nd.op \in {"or", "any"} =>
                  (frames[p].verdict = "true" <=> met # {})

\* the test of an 'and' or 'all' of two different nodes, given as a record,
\* failed on a snapshot on which the test of the first passes and the test
\* of the second fails
C26_Witness ==
    \E p \in DOMAIN frames :
        /\ frames[p].form = "dict"
        /\ frames[p].res = "resolved"
        /\ graph[frames[p].node].op \in {"and", "all"}
        /\ Len(graph[frames[p].node].parts) = 2
        /\ graph[frames[p].node].parts[1] # graph[frames[p].node].parts[2]
        /\ frames[p].snap["a"][2] = "ok"
        /\ frames[p].snap["b"][2] = "bad"
        /\ frames[p].verdict = "false"

\* C27: a composite State reader calls every child reader with the context
\* it was given and, when all reads succeed, resolves with the result of
\* each child at the position (tuple form) or under the key (record form)
\* of that child and with nothing else, in whatever order the reads
\* completed.
C27_CompositeRead ==
    \A p \in DOMAIN frames :
        LET f == frames[p]
            slots == DOMAIN graph[f.node].parts
        IN
        /\ DOMAIN f.called = slots
        /\ \A j \in slots : f.called[j] = f.ctx
        /\ f.res = "resolved" =>
              /\ f.pending = {}
              /\ DOMAIN f.snap = (IF f.form = "tuple" THEN slots
                                  ELSE {Key(j) : j \in slots})
              /\ \A j \in slots : Slot(f.form, f.snap, j) = PartRead(p, j)

\* the reads of two different nodes with different results completed the
\* second first, and the tuple holds the result of the first node first
C27_Witness ==
    \E p \in DOMAIN frames :
        /\ frames[p].form = "tuple"
        /\ frames[p].res = "resolved"
        /\ frames[p].order = <<2, 1>>
        /\ frames[p].snap[1] # frames[p].snap[2]
        /\ frames[p].snap[1][2] # frames[p].snap[2][2]
        /\ frames[p].snap[1] = PartRead(p, 1)

\* the places in the order of completion at which a read failed
FailedReads(p) ==
    {i \in DOMAIN frames[p].order :
        PartRead(p, frames[p].order[i])[2] \in {"missing", "broken"}}

\* the read that failed first in time
FirstFailed(p) ==
    frames[p].order[CHOOSE i \in FailedReads(p) : \A k \in FailedReads(p) : i <= k]

\* C28 as stated: the composite read fails as soon as a child read fails,
\* with the error of the child that failed first, and fails with
\* StateNotFound whenever some child read failed with StateNotFound.
C28_StateNotFoundWins ==
    \A p \in DOMAIN frames :
        /\ frames[p].res = "rejected" <=> FailedReads(p) # {}
        /\ FailedReads(p) # {} =>
              /\ frames[p].failure = PartRead(p, FirstFailed(p))[2]
              /\ frames[p].err = StateError(graph[frames[p].node].parts[FirstFailed(p)])
        /\ (\E i \in FailedReads(p) : PartRead(p, frames[p].order[i])[2] = "missing")
              => frames[p].failure = "missing"

\* C28, amended: the composite read fails as soon as a child read fails,
\* while other reads may still be pending, with the error of the child that
\* failed first in time; it fails with StateNotFound exactly when that
\* child failed with StateNotFound, whatever the later failures are.
C28_FirstErrorWins ==
    \A p \in DOMAIN frames :
        /\ frames[p].res = "rejected" <=> FailedReads(p) # {}
        /\ FailedReads(p) # {} =>
              /\ frames[p].failure = PartRead(p, FirstFailed(p))[2]
              /\ frames[p].err = StateError(graph[frames[p].node].parts[FirstFailed(p)])
              /\ frames[p].failure = "missing"
                    <=> PartRead(p, FirstFailed(p))[2] = "missing"

\* two reads failed, the first with another error and the second with
\* StateNotFound: the composite read failed with the other error
C28_Witness ==
    \E p \in DOMAIN frames :
        /\ Len(frames[p].order) = 2
        /\ PartRead(p, frames[p].order[1])[2] = "broken"
        /\ PartRead(p, frames[p].order[2])[2] = "missing"
        /\ frames[p].res = "rejected"
        /\ frames[p].failure = "broken"

\* C29: a goal built from a state alone has the truthiness of the snapshot
\* for its test: its seek returns true iff the reader resolved with a truthy
\* value, so Always.seek returns true and Never.seek returns false for every
\* context; a goal built with a test returns what that test makes of the
\* snapshot (here: true on "ok" only).  No action is called and nothing else
\* is sought.
C29_BoundaryGoals ==
    Settled(Root(1)) =>
        LET f == frames[Root(1)]
            s == world[f.ctx][1]
        IN
        /\ f.calls = 0
        /\ DOMAIN frames = {Root(1)}
        /\ graph[1] = fromNode("none") =>
              /\ f.res = "true" <=> s \in {"ok", "bad", "true", "1", "object"}
              /\ f.res = "false" <=>
                    s \in {"false", "0", "empty", "null", "undefined", "NaN", "missing"}
              /\ world = Always => f.res = "true"
              /\ world = Never => f.res = "false"
        /\ graph[1] = fromNode("-") =>
              /\ f.res = "true" <=> s = "ok"
              /\ f.res = "false" <=> s # "ok"

\* Always was sought and returned true
C29_Witness ==
    /\ Settled(Root(1))
    /\ graph[1] = fromNode("none")
    /\ world = Always
    /\ frames[Root(1)].res = "true"
    /\ frames[Root(1)].calls = 0

\* C23: when every action makes the test of its own node pass and breaks
\* no other, the seek made after an interruption of the first seek, at any
\* step, returns true, and it calls no action of a node whose test passes
\* on the state read for that call.
C23_Resumption ==
    Settled(Root(2)) =>
        /\ frames[Root(2)].res = "true"
        /\ \A p \in FramesOf(2) : frames[p].calls > 0 => frames[p].rr # "ok"

\* C31: the state is read again when the first probe has failed and the
\* seek of the pre-condition, if there is one, has returned true: the read
\* is made in the world of that moment.  The action is then called with the
\* snapshot of that read, or with undefined when the read has failed, with
\* StateNotFound or with any other error; the failure of the read never
\* settles the seek.
C31_RereadBeforeAction ==
    [][\A p \in DOMAIN frames :
          LET f == frames[p]
              g == frames'[p]
          IN
          /\ (f.pc # "action" /\ g.pc = "action") =>
                /\ g.snap = state(f.ctx, f.node)
                /\ g.reads = f.reads + 1
                /\ graph[f.node].requires # 0 =>
                      Settled(Pre(p)) /\ frames[Pre(p)].res = "true"
          /\ f.pc = "action" =>
                /\ g.pc \in {"action", "acted"}
                /\ g.pc = "acted" =>
                      /\ g.calls = f.calls + 1
                      /\ g.rr = f.snap
                      /\ g.arg = Snapshot(f.snap)
          /\ (f.pc = "acted" /\ g.pc = "done") =>
                g.res = "throw" /\ g.err = ActionError(f.node)
          /\ g.calls # f.calls => f.pc = "action"]_vars

\* an action was called with undefined because the re-read failed with an
\* error other than StateNotFound, after a first probe that had read a
\* snapshot, and the seek went on to the re-probe
C31_Witness ==
    \E p \in DOMAIN frames :
        /\ frames[p].calls = 1
        /\ frames[p].p1 = "bad"
        /\ frames[p].rr = "broken"
        /\ frames[p].arg = "undefined"
        /\ frames[p].pc = "done"
        /\ frames[p].p2 # "none"

\* a call on a leaf that has a state read pending or an action to run
InFlight(q) ==
    /\ ~IsOperation(NodeOf(q))
    /\ frames[q].pc \in {"test", "action", "acted", "retest"}

\* the child of the call at p that the call at q, made under it, belongs to
ChildOf(p, q) == q[Len(p) + 1][1]

\* C32: in 'and' and 'or' the seek of a child starts only after the seek of
\* the child before it has settled, in authoring order, and no state read
\* or action that belongs to two different children of the operation is in
\* flight at the same time.
C32_OneChildAtATime ==
    \A p \in Paths :
        (IsOperation(NodeOf(p)) /\ NodeOf(p).op \in {"and", "or"}) =>
            /\ \A i, j \in DOMAIN NodeOf(p).nodes, a, b \in 1..2 :
                  (Child(p, j, b) \in Paths /\ (i < j \/ (i = j /\ a < b))
                      /\ Child(p, i, a) \in Paths)
                  => Settled(Child(p, i, a))
            /\ \A q, r \in {x \in Paths : x # p /\ Under(p, x)} :
                  InFlight(q) /\ InFlight(r) => ChildOf(p, q) = ChildOf(p, r)

\* C33: the seek of an Operation calls neither the aggregated state nor
\* the aggregated test of the Operation and runs no probe, pre-condition or
\* action of its own: its frame reads no state and calls no action, it only
\* waits for the seeks of its children, and every state read and action call
\* is made by the frame of a node that is not an Operation.
C33_NoProbeAtOperation ==
    \A p \in Paths :
        IsOperation(NodeOf(p)) =>
            /\ frames[p].pc \in {"chain", "join", "done"}
            /\ frames[p].reads = 0
            /\ frames[p].calls = 0
            /\ frames[p].snap = "none"
            /\ frames[p].p1 = "none" /\ frames[p].p2 = "none"
            /\ frames[p].rr = "none" /\ frames[p].arg = "none"
            /\ Pre(p) \notin Paths
            /\ frames[p].res = "true" =>
                  \E q \in Paths : q # p /\ Under(p, q) /\ Len(q) = Len(p) + 1
                                    /\ frames[q].res = "true"

\* a parallel operation built over two nodes returned true after the action
\* of a child had made the child's test pass; the operation itself, whose
\* aggregated test was failing when seek was called, read nothing
C33_Witness ==
    /\ Settled(Root(1))
    /\ IsOperation(graph[1])
    /\ graph[1].op = "all"
    /\ Len(graph[1].nodes) = 2
    /\ frames[Root(1)].res = "true"
    /\ frames[Root(1)].reads = 0
    /\ \E q \in Kids(Root(1)) :
          /\ frames[q].p1 = "bad"
          /\ frames[q].calls = 1
          /\ frames[q].reads = 3
          /\ frames[q].p2 = "ok"

\* C34: an 'all' delivers its outcome, a boolean or a thrown error, only
\* after the seek of every child has settled: once the seek of the 'all' has
\* settled no state read or action of a child is running or yet to start.
C34_AllAwaitsEveryChild ==
    \A p \in Paths :
        (IsOp(p, "all") /\ Settled(p)) =>
            /\ \A c \in Kids(p) : Settled(c)
            /\ \A q \in Paths : (q # p /\ Under(p, q)) => ~InFlight(q)

\* the call at q goes on after a call that made it, directly or not, has
\* settled: an 'all' between p and q has thrown on the rejection of one
\* child and left the seeks of its other children running
Abandoned(p, q) ==
    \E x \in Paths :
        /\ x # p /\ Under(p, x)
        /\ x # q /\ Under(x, q)
        /\ IsOperation(NodeOf(x)) /\ NodeOf(x).op = "all"
        /\ Settled(x)
        /\ frames[x].res = "throw"

\* C32, amended: in 'and' and 'or' the seek of a child starts only after
\* the seek of the child before it has settled, in authoring order, so that
\* at most one seek of a child is pending at any time; state reads and
\* actions of two different children are in flight at the same time only
\* when an 'all' under the earlier child has thrown and left the seeks of
\* its other children running.
C32_OneSeekAtATime ==
    \A p \in Paths :
        (IsOperation(NodeOf(p)) /\ NodeOf(p).op \in {"and", "or"}) =>
            /\ \A i, j \in DOMAIN NodeOf(p).nodes, a, b \in 1..2 :
                  (Child(p, j, b) \in Paths /\ (i < j \/ (i = j /\ a < b))
                      /\ Child(p, i, a) \in Paths)
                  => Settled(Child(p, i, a))
            /\ Cardinality({c \in Paths : Len(c) = Len(p) + 1 /\ Under(p, c)
                                          /\ ~Settled(c)}) <= 1
            /\ \A q, r \in {x \in Paths : x # p /\ Under(p, x)} :
                  (InFlight(q) /\ InFlight(r) /\ ChildOf(p, q) < ChildOf(p, r)) =>
                      Abandoned(p, q)

\* the second child of a sequential operation has a state read pending, and
\* the seek of the first child has settled after running its action
C32_Witness ==
    \E p \in Paths :
        /\ IsOperation(NodeOf(p))
        /\ NodeOf(p).op \in {"and", "or"}
        /\ Child(p, 2, 1) \in Paths
        /\ InFlight(Child(p, 2, 1))
        /\ frames[Child(p, 1, 1)].calls = 1
        /\ Settled(Child(p, 1, 1))

\* C34, amended: an 'all' returns a boolean only after the seek of every
\* child has returned one, and then no state read or action of a child is
\* running or yet to start, save those a nested 'all' that has thrown has
\* left behind; it throws as soon as the seek of one child has thrown, with
\* the error of that child, whether or not the seeks of the other children
\* have settled.
C34_AllAwaitsBooleans ==
    \A p \in Paths :
        (IsOp(p, "all") /\ Settled(p)) =>
            /\ frames[p].res \in {"true", "false"} =>
                  /\ \A c \in Kids(p) : Settled(c) /\ frames[c].res \in {"true", "false"}
                  /\ \A q \in Paths :
                        (q # p /\ Under(p, q) /\ InFlight(q)) => Abandoned(p, q)
            /\ frames[p].res = "throw" =>
                  \E c \in Kids(p) :
                      /\ Settled(c)
                      /\ frames[c].res = "throw"
                      /\ frames[c].err = frames[p].err

\* an 'all' has thrown the error of one child while the seek of another
\* child, whose first probe failed, has not yet called its action
C34_Witness ==
    \E p \in Paths :
        /\ IsOp(p, "all")
        /\ Settled(p)
        /\ frames[p].res = "throw"
        /\ \E c \in Kids(p) :
              /\ frames[c].pc = "action"
              /\ frames[c].calls = 0
              /\ frames[c].p1 = "bad"

\* C35: during one evaluation of an 'or', seek is called at most once on
\* each child, whether the seek of the child returns true, returns false or
\* throws.
C35_OrSeeksChildOnce ==
    \A p \in Paths :
        IsOp(p, "or") =>
            \A j \in DOMAIN NodeOf(p).nodes : Child(p, j, 2) \notin Paths

\* C36: one evaluation of a Testable or Actionable node calls the state
\* reader of the node at most three times: once when the first probe passes,
\* once when the node is a bare Testable, once when the pre-condition yields
\* false, and three times (first probe, re-read before the action, re-probe
\* after it) when the action is called and resolves.
C36_BoundedReads ==
    \A p \in Paths :
        LET f == frames[p] IN
        ~IsOperation(NodeOf(p)) =>
            /\ f.reads \in 1..3
            /\ (Settled(p) /\ f.p1 = "ok") => f.reads = 1
            /\ ~IsActionable(NodeOf(p)) => f.reads = 1
            /\ (Pre(p) \in Paths /\ Settled(Pre(p)) /\ frames[Pre(p)].res = "false")
                  => f.reads = 1
            /\ (f.calls = 1 /\ f.ret \notin {"none", "rejected"}) => f.reads = 3
            /\ f.reads = 3 =>
                  f.calls = 1 /\ f.ret \notin {"none", "rejected"} /\ Failed(f.p1)
            /\ f.reads = 2 <=> (f.pc = "action" \/ f.pc = "acted"
                                   \/ (Settled(p) /\ f.calls = 1 /\ f.ret = "rejected"))

\* an Actionable with a pre-condition was evaluated in full: first probe
\* failed, pre-condition sought and met, state read again, action run, state
\* read a third time for the re-probe
C36_Witness ==
    \E p \in Paths :
        /\ Settled(p)
        /\ IsActionable(NodeOf(p))
        /\ NodeOf(p).requires # 0
        /\ Pre(p) \in Paths
        /\ frames[Pre(p)].res = "true"
        /\ frames[p].calls = 1
        /\ frames[p].reads = 3
        /\ frames[p].res \in {"true", "false"}

\* C37: after goal.map(f) every node of the mapped graph that was made of a
\* Described node, the goal's own node, the children of Operations and the
\* requires sub-nodes alike, is Described, with the description of the node
\* it was made of applied to f(c').
C37_MapKeepsDescriptions ==
    \E f \in [Contexts -> Contexts] :
        \A m \in DOMAIN graph \ Nodes :
            LET o == graph[Origin(m)] IN
            /\ graph[m].via = After(o.via, f)
            /\ o.desc # NoDescription =>
                  /\ graph[m].desc = o.desc
                  /\ graph[m].dvia = After(o.dvia, f)

\* engine.ts 61-63: the description the trace lines of seek(node n, c) begin
\* with: goal.description(c) of a Described node, 'anonymous goal' otherwise
Describe(n, c) ==
    IF graph[n].desc = NoDescription THEN <<"anonymous goal", 0, 0>>
    ELSE <<graph[n].desc[1], graph[n].desc[2], graph[n].dvia[c]>>

\* the lines the call of frame p has written: `${description}: ${message}`
Trace(p) ==
    [k \in DOMAIN frames[p].log |->
        <<Describe(frames[p].node, frames[p].ctx), frames[p].log[k]>>]

\* C38: every evaluation of a Testable or Actionable node that returns a
\* value writes '<description>: checking...' as its first line and, as its
\* last line, '<description>: ready!' when it returns true and
\* '<description>: failed!' when it returns false, whatever the path.
C38_TraceBrackets ==
    \A p \in Paths :
        (~IsOperation(NodeOf(p)) /\ Settled(p) /\ frames[p].res \in {"true", "false"}) =>
            LET d == Describe(frames[p].node, frames[p].ctx)
                t == Trace(p)
            IN
            /\ Len(t) >= 2
            /\ t[1] = <<d, "checking...">>
            /\ t[Len(t)] = <<d, IF frames[p].res = "true" THEN "ready!" ELSE "failed!">>

\* C39: on a finite graph without back-edges whose callbacks all terminate,
\* seek terminates: the top-level call settles, returning a boolean or
\* throwing, and so does every call of seek made under it.
C39_Termination ==
    <>(/\ Settled(Root(1))
       /\ frames[Root(1)].res \in {"true", "false", "throw"}
       /\ \A p \in Paths : Settled(p))

\* a seek three calls deep has returned: the goal requires a goal that
\* requires a third, and the action of each has been called
C39_Witness ==
    /\ Settled(Root(1))
    /\ IsActionable(graph[1])
    /\ graph[1].requires = 2
    /\ graph[2].requires = 3
    /\ Pre(Pre(Root(1))) \in Paths
    /\ frames[Pre(Pre(Root(1)))].calls = 1
    /\ frames[Pre(Root(1))].calls = 1
    /\ frames[Root(1)].calls = 1
    /\ \A p \in Paths : Settled(p)

\* C40: in the earlier evaluator a parallel 'any' yields true whenever the
\* seek of at least one link resolves to true, in whatever order the links
\* settle, and false only when no link resolves to true.
C40_AnySucceedsOnTrue ==
    (Settled(Root(1)) /\ IsOp(Root(1), "any")) =>
        /\ (\E c \in Kids(Root(1)) : Settled(c) /\ frames[c].res = "true")
              => frames[Root(1)].res = "true"
        /\ frames[Root(1)].res = "false"
              => \A c \in Kids(Root(1)) : Settled(c) => frames[c].res # "true"

====
